---------------------------- MODULE Spec2Model ----------------------------
(***************************************************************************)
(* A model of dnsd: the DNS server facade (lifecycle, TCP framing, EDNS    *)
(* validation, zone lookup) and the wire codec (name compression, record   *)
(* payloads, message header).                                              *)
(*                                                                         *)
(* The module holds several specifications over one set of variables:      *)
(*   SpecLife  - listen()/close() and the sockets' events                  *)
(*   SpecTcp   - the TCP receive path of one connection                    *)
(*   SpecRecv  - the UDP and TCP receive paths with EDNS validation        *)
(*   SpecZone  - DNSResponse.findZoneForName                               *)
(*   SpecCodec - decode / encode of messages in wire format                *)
(*   SpecEnd   - a 'request' listener and DNSResponse.end( value )          *)
(*   SpecEncode - encode() of an object that describes a message           *)
(*   SpecName  - Encoder.encodeName and its compression pointers           *)
(*   SpecPointer - compileName on messages written octet by octet          *)
(*   SpecOpcode - the opcode of a message, decoded and encoded             *)
(*   SpecSoa   - the mail address of an SOA record, encoded and decoded    *)
(*   SpecRcode - the response code of a response with an OPT pseudo-RR     *)
(*   SpecTxt   - the strings of a TXT record, encoded and decoded          *)
(*   SpecSeconds - seconds() of convenient.js                              *)
(*   SpecBad   - messages that cannot be decoded, among queries            *)
(*   SpecClose - close() while a listener holds a response                 *)
(*   SpecSend  - socket.send of a datagram's socket and of a connection's  *)
(*   SpecDict  - the dictionary of names of an encoder, OPT records among  *)
(*   SpecOpt   - the OPT pseudo-RR, encoded and read by sections()         *)
(*   SpecLoop, SpecLoopFair - the loop of compileName pass by pass         *)
(*   SpecEdns  - the OPT pseudo-RR of a response in end()                  *)
(*   SpecTtl   - TTL and class of a listener's records in end()            *)
(*   SpecShut  - datagrams and data of a connection around close()         *)
(* A specification leaves the variables of the other parts at their        *)
(* initial values.                                                         *)
(***************************************************************************)
EXTENDS Integers, Sequences, FiniteSets, TLC

VARIABLES
    server,     \* DNSServer: sockets, listening closure, promises, $closing, events
    conn,       \* closure of onTcpConnection: expecting, received, chunks
    net,        \* octets still to arrive: TCP stream, UDP datagrams
    log,        \* what the receive paths did: frames, request events, transmissions
    zone,       \* findZoneForName: registered zones, name asked, result
    codec,      \* decode/encode pipeline: wire message, decoded, encoded, decoded again
    resp        \* the response a 'request' listener holds, and what its end() left

vars == <<server, conn, net, log, zone, codec, resp>>

(***************************************************************************)
(* Bounds of the model.                                                    *)
(***************************************************************************)
MaxCloseCalls == 2

(***************************************************************************)
(* Generic helpers.                                                        *)
(***************************************************************************)
Max(a, b) == IF a >= b THEN a ELSE b
Min(a, b) == IF a <= b THEN a ELSE b

RECURSIVE Flatten(_)
Flatten(ss) == IF ss = <<>> THEN <<>> ELSE Head(ss) \o Flatten(Tail(ss))

\* Buffer.slice( from ) with a 0-based start index
DropFirst(s, n) == IF n >= Len(s) THEN <<>> ELSE SubSeq(s, n + 1, Len(s))
\* Buffer.slice( 0, n )
TakeFirst(s, n) == IF n <= 0 THEN <<>> ELSE SubSeq(s, 1, Min(n, Len(s)))

(***************************************************************************)
(* PART 0 - the wire codec.  An octet is a number 0..255, a Buffer a       *)
(* sequence of octets addressed from 0, a string the sequence of its       *)
(* character codes.  A call that throws yields Err( reason ).              *)
(***************************************************************************)
Err(e) == [ok |-> FALSE, err |-> e]

DOT == 46       \* "."
COLON == 58     \* ":"
AT == 64        \* "@"
BACKSLASH == 92
ZERO == 48      \* "0"

\* buf.readUInt8( i ), readUInt16BE( i ), readUInt32BE( i ): callers check CanRead first;
\* the 32 bit fields of the model's messages stay below 2^31
CanRead(buf, i, n) == i >= 0 /\ i + n <= Len(buf)
U8(buf, i) == buf[i + 1]
U16(buf, i) == buf[i + 1] * 256 + buf[i + 2]
U32(buf, i) == ((buf[i + 1] * 256 + buf[i + 2]) * 256 + buf[i + 3]) * 256 + buf[i + 4]
\* buf.slice( from, to ): clipped to the buffer, never throws
Slice(buf, from, to) ==
    IF from >= Min(to, Len(buf)) THEN <<>> ELSE SubSeq(buf, from + 1, Min(to, Len(buf)))
\* buf16( value ), buf32( value )
buf16(v) == <<(v \div 256) % 256, v % 256>>
buf32(v) == <<(v \div 16777216) % 256, (v \div 65536) % 256, (v \div 256) % 256, v % 256>>

\* buf.toString( "ascii" ): the highest bit of every octet is unset
AsciiString(octets) == [i \in 1..Len(octets) |-> octets[i] % 128]
\* chunk.write( segment, 1, n, "ascii" ): the low octet of every character
AsciiOctets(str) == [i \in 1..Len(str) |-> str[i] % 256]

\* Array.prototype.join( sep ) on strings
RECURSIVE Join(_, _)
Join(parts, sep) ==
    IF parts = <<>> THEN <<>>
    ELSE IF Len(parts) = 1 THEN parts[1]
    ELSE parts[1] \o <<sep>> \o Join(Tail(parts), sep)

\* String.prototype.split( sep ) with a one-character separator
RECURSIVE SplitFrom(_, _, _, _)
SplitFrom(str, sep, i, cur) ==
    IF i > Len(str) THEN <<cur>>
    ELSE IF str[i] = sep THEN <<cur>> \o SplitFrom(str, sep, i + 1, <<>>)
    ELSE SplitFrom(str, sep, i + 1, Append(cur, str[i]))
Split(str, sep) == SplitFrom(str, sep, 1, <<>>)

(* decode.js ***************************************************************)
SECTIONS == <<"question", "answer", "authority", "additional">>

\* TYPE_LABELS, CLASS_LABELS: the entries the model's messages use; any other
\* number in range has no label
TYPE_LABELS ==
    [n \in {1, 2, 5, 6, 12, 13, 15, 16, 28, 33, 41, 43, 255} |->
        CASE n = 1 -> "A"      [] n = 2 -> "NS"    [] n = 5 -> "CNAME" [] n = 6 -> "SOA"
          [] n = 12 -> "PTR"   [] n = 13 -> "HINFO" [] n = 15 -> "MX"  [] n = 16 -> "TXT"
          [] n = 28 -> "AAAA"  [] n = 33 -> "SRV"  [] n = 41 -> "OPT"  [] n = 43 -> "DS"
          [] n = 255 -> "*"]
CLASS_LABELS ==
    [n \in {1, 3, 4, 254, 255} |->
        CASE n = 1 -> "IN" [] n = 3 -> "CH" [] n = 4 -> "HS" [] n = 254 -> "NONE" [] n = 255 -> "*"]

null == "null"
\* a missing number: undefined, or the NaN that arithmetic on it gives
undefined == -1

\* typeToLabel( value ), classToLabel( value )
typeToLabel(v) ==
    IF v < 1 \/ v > 65535 THEN Err("Invalid record type")
    ELSE [ok |-> TRUE,
          label |-> IF v \in DOMAIN TYPE_LABELS THEN TYPE_LABELS[v]
                    ELSE IF v = 65535 THEN "Reserved"
                    ELSE IF v > 65279 THEN "Private use" ELSE null]
classToLabel(v) ==
    IF v < 1 \/ v > 65535 THEN Err("Invalid record class")
    ELSE [ok |-> TRUE,
          label |-> IF v \in DOMAIN CLASS_LABELS THEN CLASS_LABELS[v]
                    ELSE IF v = 65535 THEN "reserved"
                    ELSE IF v > 65279 THEN "Private use" ELSE null]
\* typeToNumber( label ), classToNumber( label )
typeToNumber(l) ==
    IF \E n \in DOMAIN TYPE_LABELS : TYPE_LABELS[n] = l
    THEN [ok |-> TRUE, num |-> CHOOSE n \in DOMAIN TYPE_LABELS : TYPE_LABELS[n] = l]
    ELSE IF l = "Reserved" THEN [ok |-> TRUE, num |-> 65535]
    ELSE Err("No such type label")
classToNumber(l) ==
    IF \E n \in DOMAIN CLASS_LABELS : CLASS_LABELS[n] = l
    THEN [ok |-> TRUE, num |-> CHOOSE n \in DOMAIN CLASS_LABELS : CLASS_LABELS[n] = l]
    ELSE IF l = "reserved" THEN [ok |-> TRUE, num |-> 65535]
    ELSE Err("No such class label")

\* pointersCache[pointer], read before pointersCache[pointer] = true
visitedAfter(pointersCache, pointer) == pointer \in pointersCache \cup {pointer}
\* no test of pointersCache[pointer]
visitedNever(pointersCache, pointer) == FALSE
visited(pointersCache, pointer) == pointer \in pointersCache

\* numOctets = cursor - offset, whether or not a pointer was met
numOctetsExpanded(metPointer, numOctets, cursor, offset) == cursor - offset
\* if ( !metPointer ) numOctets = cursor - offset
numOctetsOf(metPointer, numOctets, cursor, offset) ==
    IF metPointer THEN numOctets ELSE cursor - offset

\* compileName( fullMessage, slice, offset ): the loop over label headers
RECURSIVE compileNameLoop(_, _, _, _, _, _, _, _)
compileNameLoop(fullMessage, buffer, cursor, offset, pointersCache, metPointer, numOctets, segments) ==
    IF ~CanRead(buffer, cursor, 1) THEN Err("RangeError")
    ELSE LET byte == U8(buffer, cursor) IN
         CASE byte \div 64 = 3 ->
                IF ~CanRead(buffer, cursor + 1, 1) THEN Err("RangeError")
                ELSE LET pointer == (byte % 64) * 256 + U8(buffer, cursor + 1) IN
                     IF pointer >= Len(fullMessage) THEN Err("invalid out-of-bounds pointer")
                     ELSE IF visited(pointersCache, pointer)
                          THEN Err("circular pointer references discovered")
                     ELSE compileNameLoop(fullMessage, fullMessage, pointer, offset,
                                          pointersCache \cup {pointer}, TRUE,
                                          numOctetsOf(metPointer, numOctets, cursor + 2, offset),
                                          segments)
           [] byte \div 64 = 0 ->
                IF byte = 0
                THEN [ok |-> TRUE, segments |-> segments,
                      length |-> numOctetsOf(metPointer, numOctets, cursor + 1, offset)]
                ELSE compileNameLoop(fullMessage, buffer, cursor + 1 + byte, offset,
                                     pointersCache, metPointer, numOctets,
                                     Append(segments,
                                            AsciiString(Slice(buffer, cursor + 1, cursor + 1 + byte))))
           [] OTHER -> Err("unexpected type of label")

compileName(fullMessage, slice, offset) ==
    IF offset < 0 \/ offset > Len(fullMessage) THEN Err("Bad offset")
    ELSE compileNameLoop(fullMessage, slice, offset, offset, {}, FALSE, 1, <<>>)

\* uncompress( msg, sub, offset )
uncompress(msg, sub, offset) ==
    LET Named(n) == IF n.ok THEN [ok |-> TRUE, name |-> Join(n.segments, DOT)] ELSE n
    IN  Named(compileName(msg, sub, offset))

\* recordCount( msg, name )
recordCount(msg, k) == U16(msg, 2 + 2 * k)

\* extractEDNSOptions( buffer )
RECURSIVE extractEDNSOptionsFrom(_, _, _)
extractEDNSOptionsFrom(buffer, offset, options) ==
    IF offset >= Len(buffer) THEN [ok |-> TRUE, options |-> options]
    ELSE IF ~CanRead(buffer, offset, 4) THEN Err("RangeError")
    ELSE extractEDNSOptionsFrom(
             buffer, offset + 4 + U16(buffer, offset + 2),
             Append(options,
                    [code |-> U16(buffer, offset),
                     data |-> Slice(buffer, offset + 4, offset + 4 + U16(buffer, offset + 2))]))
extractEDNSOptions(buffer) == extractEDNSOptionsFrom(buffer, 0, <<>>)

\* The 32 bit TTL field of an OPT record is taken apart from its two 16 bit
\* halves (a number of 32 bits is beyond the checker's integers):
\* ttl >> 24 is signed, ( ttl >> 16 ) & 0xff, ttl & 0x8000 and ttl & 0x7FFF are not.
ttlShift24(hi) == IF hi >= 32768 THEN (hi \div 256) - 256 ELSE hi \div 256
ttlShift16(hi) == hi % 256

\* sections( msg ): the body of the loop, one record read at `position` in section k
sectionRecord(msg, k, position) ==
    LET Edns(typeValue, classValue, p2, p3, opts) ==
            IF ~opts.ok THEN opts
            ELSE [ok |-> TRUE, position |-> p3,
                  record |-> [edns |-> TRUE, type |-> typeValue,
                              udpSize |-> Max(512, classValue),
                              extendedResult |-> ttlShift24(U16(msg, p2)),
                              version |-> ttlShift16(U16(msg, p2)),
                              flagDO |-> U16(msg, p2 + 2) >= 32768,
                              flags |-> U16(msg, p2 + 2) % 32768,
                              options |-> opts.options]]
        Payload(name, typeValue, classValue, p2, data, p3, label) ==
            IF ~label.ok THEN label
            ELSE IF label.label = "OPT"
            THEN IF name # <<>> THEN Err("invalid EDNS: name of OPT pseudo-RR must be empty")
                 ELSE Edns(typeValue, classValue, p2, p3, extractEDNSOptions(data))
            ELSE [ok |-> TRUE, position |-> p3,
                  record |-> [edns |-> FALSE, name |-> name, class |-> classValue,
                              type |-> typeValue, ttl |-> U32(msg, p2), data |-> data]]
        Fixed(name, typeValue, classValue, p2) ==
            IF SECTIONS[k] = "question"
            THEN [ok |-> TRUE, position |-> p2,
                  record |-> [edns |-> FALSE, name |-> name, class |-> classValue,
                              type |-> typeValue]]
            ELSE IF ~CanRead(msg, p2, 6) THEN Err("RangeError")
            ELSE Payload(name, typeValue, classValue, p2,
                         Slice(msg, p2 + 6, p2 + 6 + U16(msg, p2 + 4)),
                         p2 + 6 + U16(msg, p2 + 4), typeToLabel(typeValue))
        Named(nm, p1) ==
            IF ~CanRead(msg, p1, 4) THEN Err("RangeError")
            ELSE Fixed(Join(nm.segments, DOT), U16(msg, p1), U16(msg, p1 + 2), p1 + 4)
        Start(nm) == IF ~nm.ok THEN nm ELSE Named(nm, position + nm.length)
    IN  Start(compileName(msg, msg, position))

RECURSIVE sectionsLoop(_, _, _, _, _)
sectionsLoop(msg, k, i, position, records) ==
    LET Read(r) ==
            IF ~r.ok THEN r
            ELSE sectionsLoop(msg, k, i + 1, r.position,
                              [records EXCEPT ![k] = Append(@, r.record)])
    IN  IF k > Len(SECTIONS) THEN [ok |-> TRUE, records |-> records]
        ELSE IF i >= recordCount(msg, k) THEN sectionsLoop(msg, k + 1, 0, position, records)
        ELSE Read(sectionRecord(msg, k, position))

\* sections( msg )
sections(msg) ==
    IF ~CanRead(msg, 0, 12) THEN Err("RangeError")
    ELSE sectionsLoop(msg, 1, 0, 12, <<<<>>, <<>>, <<>>, <<>>>>)

\* mx( msg, data ), srv( msg, data ), soa( msg, data ), txt( msg, data )
mx(msg, data) ==
    LET Named(n) ==
            IF ~n.ok THEN n
            ELSE [ok |-> TRUE, data |-> [k |-> "mx", weight |-> U16(data, 0), name |-> n.name]]
    IN  IF ~CanRead(data, 0, 2) THEN Err("RangeError") ELSE Named(uncompress(msg, data, 2))

srv(msg, data) ==
    LET Named(n) ==
            IF ~n.ok THEN n
            ELSE [ok |-> TRUE,
                  data |-> [k |-> "srv", priority |-> U16(data, 0), weight |-> U16(data, 2),
                            port |-> U16(data, 4), target |-> n.name]]
    IN  IF ~CanRead(data, 0, 6) THEN Err("RangeError") ELSE Named(uncompress(msg, data, 6))

soa(msg, data) ==
    LET Numbers(mname, rname, offset) ==
            IF ~CanRead(data, offset, 20) THEN Err("RangeError")
            ELSE [ok |-> TRUE,
                  data |-> [k |-> "soa",
                            mname |-> Join(mname.segments, DOT),
                            rname |-> Join(rname.segments, DOT),
                            serial |-> U32(data, offset),
                            refresh |-> U32(data, offset + 4),
                            retry |-> U32(data, offset + 8),
                            expire |-> U32(data, offset + 12),
                            ttl |-> U32(data, offset + 16)]]
        Second(mname, rname) ==
            IF ~rname.ok THEN rname ELSE Numbers(mname, rname, mname.length + rname.length)
        First(mname) ==
            IF ~mname.ok THEN mname ELSE Second(mname, compileName(msg, data, mname.length))
    IN  First(compileName(msg, data, 0))

RECURSIVE txt(_)
txt(iter) ==
    IF Len(iter) = 0 THEN <<>>
    ELSE <<AsciiString(Slice(iter, 1, 1 + U8(iter, 0)))>>
         \o txt(Slice(iter, 1 + U8(iter, 0), Len(iter)))

(* message.js **************************************************************)
\* the decimal notation of a number, as Array.prototype.join renders it
RECURSIVE Decimal(_)
Decimal(n) == IF n < 10 THEN <<ZERO + n>> ELSE Decimal(n \div 10) \o <<ZERO + (n % 10)>>

\* renderIPv4( octets )
renderIPv4(octets) == Join([i \in 1..Min(4, Len(octets)) |-> Decimal(octets[i])], DOT)

\* buf.toString( "hex" )
HexDigit(d) == IF d < 10 THEN ZERO + d ELSE 97 + (d - 10)
RECURSIVE HexString(_)
HexString(buf) ==
    IF buf = <<>> THEN <<>>
    ELSE <<HexDigit(Head(buf) \div 16), HexDigit(Head(buf) % 16)>> \o HexString(Tail(buf))

\* renderIPv6( buf ): a colon after every four digits, the last colon removed
RECURSIVE ColonGroups(_)
ColonGroups(hex) ==
    IF Len(hex) < 4 THEN hex
    ELSE SubSeq(hex, 1, 4) \o <<COLON>> \o ColonGroups(SubSeq(hex, 5, Len(hex)))
renderIPv6(buf) ==
    LET grouped == ColonGroups(HexString(buf)) IN
    IF grouped # <<>> /\ grouped[Len(grouped)] = COLON
    THEN SubSeq(grouped, 1, Len(grouped) - 1) ELSE grouped

\* str.replace( /\./, "@" ): the first dot only
ReplaceFirst(str, from, to) ==
    IF \E i \in 1..Len(str) : str[i] = from
    THEN LET i == CHOOSE j \in 1..Len(str) : str[j] = from /\ \A h \in 1..(j - 1) : str[h] # from
         IN  [str EXCEPT ![i] = to]
    ELSE str

\* record.edns of a record that is no OPT pseudo-RR
NoEDNS == [present |-> FALSE]

\* the texts of an IN TXT record as Decode.txt returns them
txtDataArray(parts) == [k |-> "array", list |-> parts]

\* the value of an IN TXT record: no text is "", one text is that string
txtData(parts) ==
    IF Len(parts) = 0 THEN [k |-> "string", str |-> <<>>]
    ELSE IF Len(parts) = 1 THEN [k |-> "string", str |-> parts[1]]
    ELSE [k |-> "array", list |-> parts]

\* DNSRecord.parse( body, sectionName, recordNum, sections ): the type-specific data
recordData(body, class, type, rdata) ==
    LET Name(n) == IF ~n.ok THEN n ELSE [ok |-> TRUE, data |-> [k |-> "string", str |-> n.name]]
        Soa(d) ==
            IF ~d.ok THEN d
            ELSE [ok |-> TRUE, data |-> [d.data EXCEPT !.rname = ReplaceFirst(@, DOT, AT)]]
        Kind(kind) ==
            CASE kind = <<"IN", "A">> ->
                    IF Len(rdata) # 4 THEN Err("Bad IN A data")
                    ELSE [ok |-> TRUE, data |-> [k |-> "string", str |-> renderIPv4(rdata)]]
              [] kind = <<"IN", "AAAA">> ->
                    IF Len(rdata) # 16 THEN Err("Bad IN AAAA data")
                    ELSE [ok |-> TRUE, data |-> [k |-> "string", str |-> renderIPv6(rdata)]]
              [] kind \in {<<"IN", "NS">>, <<"IN", "CNAME">>, <<"IN", "PTR">>} ->
                    Name(uncompress(body, rdata, 0))
              [] kind = <<"IN", "TXT">> -> [ok |-> TRUE, data |-> txtData(txt(rdata))]
              [] kind = <<"IN", "MX">> -> mx(body, rdata)
              [] kind = <<"IN", "SRV">> -> srv(body, rdata)
              [] kind = <<"IN", "SOA">> -> Soa(soa(body, rdata))
              [] kind = <<"IN", "DS">> ->
                    [ok |-> TRUE,
                     data |-> [k |-> "ds",
                               keyTag |-> IF Len(rdata) >= 2 THEN rdata[1] * 256 + rdata[2]
                                          ELSE undefined,
                               algorithm |-> IF Len(rdata) >= 3 THEN rdata[3] ELSE undefined,
                               digestType |-> IF Len(rdata) >= 4 THEN rdata[4] ELSE undefined,
                               digest |-> Slice(rdata, 4, Len(rdata))]]
              [] kind = <<"NONE", "A">> -> [ok |-> TRUE, data |-> [k |-> "array", list |-> <<>>]]
              [] kind = <<"IN", "OPT">> -> [ok |-> TRUE, data |-> [k |-> "buffer", buf |-> rdata]]
              [] OTHER -> Err("Unknown record")
    IN  Kind(<<class, type>>)

\* DNSRecord.parse( body, sectionName, recordNum, sections ) on the record that
\* getRecord found; this.edns is not set when it is tested, and the record
\* that sections() makes of an OPT pseudo-RR has no class
DNSRecordParse(body, sectionName, record) ==
    LET Data(class, type, d) ==
            IF ~d.ok THEN d
            ELSE [ok |-> TRUE,
                  record |-> [edns |-> NoEDNS, name |-> record.name, class |-> class,
                              type |-> type, ttl |-> record.ttl, data |-> d.data]]
        Labels(class, type) ==
            IF ~class.ok THEN class
            ELSE IF ~type.ok THEN type
            ELSE IF class.label = null THEN Err("unknown class")
            ELSE IF type.label = null THEN Err("unknown type")
            ELSE IF sectionName = "question"
            THEN [ok |-> TRUE,
                  record |-> [edns |-> NoEDNS, name |-> record.name, class |-> class.label,
                              type |-> type.label]]
            ELSE Data(class.label, type.label,
                      recordData(body, class.label, type.label, record.data))
    IN  IF record.edns THEN Err("Invalid record class")
        ELSE Labels(classToLabel(record.class), typeToLabel(record.type))

\* The DNSRecord of the message.js that the server requires keeps the record
\* that sections() makes of an OPT pseudo-RR as its `edns`, in any section.
DNSRecordOfOPT(record) ==
    [ok |-> TRUE,
     record |-> [edns |-> [present |-> TRUE, udpSize |-> record.udpSize,
                           extendedResult |-> record.extendedResult,
                           version |-> record.version, flagDO |-> record.flagDO,
                           flags |-> record.flags, options |-> record.options],
                 name |-> <<>>, class |-> "IN", type |-> "OPT"]]

\* new DNSRecord( body, section, i, sectionsCache ), of the package API
\* (ednsAware = FALSE) and of the server (ednsAware = TRUE)
DNSRecordIn(ednsAware, body, sectionName, record) ==
    IF ednsAware /\ record.edns THEN DNSRecordOfOPT(record)
    ELSE DNSRecordParse(body, sectionName, record)

RECURSIVE parseRecords(_, _, _, _, _)
parseRecords(ednsAware, body, sectionName, raws, done) ==
    LET Parsed(r) ==
            IF ~r.ok THEN r
            ELSE parseRecords(ednsAware, body, sectionName, Tail(raws), Append(done, r.record))
    IN  IF raws = <<>> THEN [ok |-> TRUE, records |-> done]
        ELSE Parsed(DNSRecordIn(ednsAware, body, sectionName, Head(raws)))

opcodeNames == <<"query", "iquery", "status", null, "notify", "update">>

\* DNSMessage.parse( body ), reached through new DNSMessage( buffer )
DNSMessageParseIn(ednsAware, body) ==
    LET Message(opcode, q, an, au, ad) ==
            IF ~q.ok THEN q ELSE IF ~an.ok THEN an ELSE IF ~au.ok THEN au ELSE IF ~ad.ok THEN ad
            ELSE [ok |-> TRUE,
                  msg |-> [id |-> U16(body, 0),
                           type |-> IF U8(body, 2) \div 128 = 0 THEN "request" ELSE "response",
                           responseCode |-> U8(body, 3) % 16,
                           opcode |-> IF opcode < Len(opcodeNames) THEN opcodeNames[opcode + 1]
                                      ELSE null,
                           authoritative |-> (U8(body, 2) \div 4) % 2 = 1,
                           truncated |-> (U8(body, 2) \div 2) % 2 = 1,
                           recursionDesired |-> U8(body, 2) % 2 = 1,
                           recursionAvailable |-> U8(body, 3) \div 128 = 1,
                           authenticated |-> (U8(body, 3) \div 32) % 2 = 1,
                           checkingDisabled |-> (U8(body, 3) \div 16) % 2 = 1,
                           question |-> q.records,
                           answer |-> an.records,
                           authority |-> au.records,
                           additional |-> ad.records]]
        Sections(sectionsCache) ==
            IF ~sectionsCache.ok THEN sectionsCache
            ELSE Message((U8(body, 2) \div 8) % 16,
                         parseRecords(ednsAware, body, "question", sectionsCache.records[1], <<>>),
                         parseRecords(ednsAware, body, "answer", sectionsCache.records[2], <<>>),
                         parseRecords(ednsAware, body, "authority", sectionsCache.records[3], <<>>),
                         parseRecords(ednsAware, body, "additional", sectionsCache.records[4], <<>>))
    IN  IF ~CanRead(body, 0, 12) THEN Err("RangeError") ELSE Sections(sections(body))

DNSMessageParse(body) == DNSMessageParseIn(FALSE, body)

\* decode( packet ) of the package API
decode(packet) == DNSMessageParse(packet)

(* encode.js ***************************************************************)
\* \s of a regular expression, among the characters below 128
IsSpace(c) == c \in {9, 10, 11, 12, 13, 32}
\* what the dot of a regular expression does not match
IsLineTerminator(c) == c \in {10, 13}
IsDigit(c) == c >= ZERO /\ c <= ZERO + 9
IsHexDigit(c) == IsDigit(c) \/ (c >= 97 /\ c <= 102) \/ (c >= 65 /\ c <= 70)
HexValue(c) == IF IsDigit(c) THEN c - ZERO ELSE IF c >= 97 THEN c - 87 ELSE c - 55

\* /^([^.\s]{1,63})(?:\.([^.\s].*))?$/.exec( domain ): the first group is the
\* whole leading run of characters that are neither dot nor space
LabelRun(domain) ==
    IF \E i \in 1..Len(domain) : domain[i] = DOT \/ IsSpace(domain[i])
    THEN (CHOOSE i \in 1..Len(domain) :
             /\ domain[i] = DOT \/ IsSpace(domain[i])
             /\ \A h \in 1..(i - 1) : ~(domain[h] = DOT \/ IsSpace(domain[h]))) - 1
    ELSE Len(domain)

MaxLabel == 63

NameSplit(domain) ==
    LET Run(n) ==
            IF n < 1 \/ n > MaxLabel THEN [match |-> FALSE]
            ELSE IF n = Len(domain)
                 THEN [match |-> TRUE, segment |-> domain, rest |-> <<>>]
            ELSE IF /\ domain[n + 1] = DOT
                    /\ n + 2 <= Len(domain)
                    /\ domain[n + 2] # DOT /\ ~IsSpace(domain[n + 2])
                    /\ \A i \in (n + 3)..Len(domain) : ~IsLineTerminator(domain[i])
                 THEN [match |-> TRUE, segment |-> SubSeq(domain, 1, n),
                       rest |-> SubSeq(domain, n + 2, Len(domain))]
            ELSE [match |-> FALSE]
    IN  Run(LabelRun(domain))

\* the highest position a compression pointer can name
MaxPointer == 16383

\* if ( pointer && compress && pointer <= 0x3fff )
usesPointerAnywhere(pointer, compress) == pointer # 0 /\ compress
\* the same without the test of compress
usesPointerAlways(pointer, compress) == pointer # 0 /\ pointer <= MaxPointer
usesPointer(pointer, compress) == pointer # 0 /\ compress /\ pointer <= MaxPointer

\* encodeName( fqdn, shift, { compress } ): the loop; `domains` maps a name to the
\* position of its latest encoding (a name it does not hold counts as no pointer)
RECURSIVE encodeNameLoop(_, _, _, _, _)
encodeNameLoop(domains, domain, position, compress, chunks) ==
    LET Label(split) ==
            IF ~split.match THEN Err("domain name is malformed")
            ELSE encodeNameLoop((domain :> position) @@ domains, split.rest,
                                position + Len(split.segment) + 1, compress,
                                chunks \o <<Len(split.segment)>> \o AsciiOctets(split.segment))
        Known(pointer) ==
            IF usesPointer(pointer, compress)
            THEN [ok |-> TRUE, domains |-> domains,
                  octets |-> chunks \o <<192 + (pointer \div 256), pointer % 256>>]
            ELSE Label(NameSplit(domain))
    IN  IF Len(domain) = 0 THEN [ok |-> TRUE, octets |-> chunks \o <<0>>, domains |-> domains]
        ELSE Known(IF domain \in DOMAIN domains THEN domains[domain] ELSE 0)

\* fqdn.replace( /\.$/, "" )
StripTrailingDot(fqdn) ==
    IF fqdn # <<>> /\ fqdn[Len(fqdn)] = DOT THEN SubSeq(fqdn, 1, Len(fqdn) - 1) ELSE fqdn

\* encodeName with the positions of its labels counted from this.position alone
encodeNameUnshifted(E, fqdn, shift, compress) ==
    encodeNameLoop(E.domains, StripTrailingDot(fqdn), E.position, compress, <<>>)

encodeName(E, fqdn, shift, compress) ==
    encodeNameLoop(E.domains, StripTrailingDot(fqdn), E.position + shift, compress, <<>>)

\* new Encoder()
NewEncoder ==
    [position |-> 0, domains |-> <<>>, question |-> <<>>, answer |-> <<>>,
     authority |-> <<>>, additional |-> <<>>]

\* the number a string of digits denotes
RECURSIVE DecimalValue(_)
DecimalValue(str) ==
    IF str = <<>> THEN 0 ELSE DecimalValue(SubSeq(str, 1, Len(str) - 1)) * 10 + (str[Len(str)] - ZERO)

\* a string that is undefined: record.data.rname.split( "@" ) is a TypeError then
NoString == <<undefined>>

\* a missing number written by writeUInt16BE, writeUInt32BE or Buffer.from is 0
Num(v) == IF v = undefined THEN 0 ELSE v
\* Buffer.from( list ): every number is cut to an octet
Octet(v) == IF v = undefined THEN 0 ELSE v % 256
OctetList(list) == [i \in 1..Len(list) |-> Octet(list[i])]

\* "IN A": rdata.match( /^(\d+)\.(\d+)\.(\d+)\.(\d+)$/ ), on "0.0.0.0" for no data
rdataA(str) ==
    LET Numbers(parts) ==
            IF /\ Len(parts) = 4
               /\ \A i \in 1..4 : parts[i] # <<>> /\ \A j \in 1..Len(parts[i]) : IsDigit(parts[i][j])
            THEN [ok |-> TRUE, octets |-> OctetList([i \in 1..4 |-> DecimalValue(parts[i])])]
            ELSE Err("Bad A record data")
    IN  Numbers(Split(IF str = <<>> THEN <<ZERO, DOT, ZERO, DOT, ZERO, DOT, ZERO>> ELSE str, DOT))

\* "IN AAAA": ( "0000" + pair ).slice( -4 ), Buffer.from( qualified, "hex" )
Qualified(pair) == SubSeq(<<ZERO, ZERO, ZERO, ZERO>> \o pair, Len(pair) + 1, Len(pair) + 4)
HexPair(q) == <<HexValue(q[1]) * 16 + HexValue(q[2]), HexValue(q[3]) * 16 + HexValue(q[4])>>
rdataAAAA(str) ==
    LET Pairs(pairs) ==
            IF Len(pairs) # 8 THEN Err("Bad AAAA record data")
            ELSE IF \E i \in 1..8 : \E j \in 1..4 : ~IsHexDigit(Qualified(pairs[i])[j])
                 THEN Err("invalid segment in IPv6 address")
            ELSE [ok |-> TRUE, octets |-> Flatten([i \in 1..8 |-> HexPair(Qualified(pairs[i]))])]
    IN  Pairs(Split(str, COLON))

\* parts[0].replace( /\./g, "\\." )
RECURSIVE EscapeDots(_)
EscapeDots(str) ==
    IF str = <<>> THEN <<>>
    ELSE (IF Head(str) = DOT THEN <<BACKSLASH, DOT>> ELSE <<Head(str)>>) \o EscapeDots(Tail(str))

\* "IN SOA": the mail address of rname back in the notation of a domain name
soaMail(rname) ==
    LET Mail(parts) == Join([parts EXCEPT ![1] = EscapeDots(@)], DOT) IN Mail(Split(rname, AT))

\* Buffer.from( String( part ) ): the characters in UTF-8, those below 2048
RECURSIVE Utf8Wide(_)
Utf8Wide(str) ==
    IF str = <<>> THEN <<>>
    ELSE (IF Head(str) < 128 THEN <<Head(str)>>
          ELSE <<192 + (Head(str) \div 64), 128 + (Head(str) % 64)>>) \o Utf8Wide(Tail(str))
Utf8Octets(str) == IF \A i \in 1..Len(str) : str[i] < 128 THEN str ELSE Utf8Wide(str)

\* "IN TXT": every part as the number of its octets and its octets; the number
\* becomes an octet by Buffer.from( list )
rdataPart(octets) == <<Len(octets) % 256>> \o octets
RECURSIVE rdataTXT(_)
rdataTXT(parts) ==
    IF parts = <<>> THEN <<>>
    ELSE rdataPart(Utf8Octets(Head(parts))) \o rdataTXT(Tail(parts))

\* Encoder.record( sectionName, record ): the rdata of the record, written
\* after the 10 octets of type, class, ttl that follow the owner name; E is the
\* encoder with its position at the rdata length
rdataOf(E, record) ==
    LET Plain(r) ==
            IF ~r.ok THEN r ELSE [ok |-> TRUE, octets |-> r.octets, domains |-> E.domains]
        Mx(data, n) ==
            IF ~n.ok THEN n
            ELSE [ok |-> TRUE, octets |-> buf16(Num(data.weight)) \o n.octets, domains |-> n.domains]
        Srv(data, n) ==
            IF ~n.ok THEN n
            ELSE [ok |-> TRUE, domains |-> n.domains,
                  octets |-> buf16(Num(data.priority)) \o buf16(Num(data.weight))
                             \o buf16(Num(data.port)) \o n.octets]
        SoaBoth(data, mName, rName) ==
            IF ~rName.ok THEN rName
            ELSE [ok |-> TRUE, domains |-> rName.domains,
                  octets |-> mName.octets \o rName.octets \o buf32(Num(data.serial))
                             \o buf32(Num(data.refresh)) \o buf32(Num(data.retry))
                             \o buf32(Num(data.expire)) \o buf32(Num(data.ttl))]
        Soa(data, mName) ==
            IF ~mName.ok THEN mName
            ELSE SoaBoth(data, mName,
                         encodeName([E EXCEPT !.domains = mName.domains], soaMail(data.rname),
                                    2 + Len(mName.octets), TRUE))
        Kind(kind, data) ==
            CASE kind = <<"IN", "A">> ->
                    IF data.k # "string" THEN Err("TypeError") ELSE Plain(rdataA(data.str))
              [] kind = <<"IN", "AAAA">> ->
                    IF data.k # "string" THEN Err("TypeError") ELSE Plain(rdataAAAA(data.str))
              [] kind = <<"IN", "MX">> ->
                    IF data.k # "mx" THEN Err("TypeError")
                    ELSE Mx(data, encodeName(E, data.name, 2 + 2, TRUE))
              [] kind = <<"IN", "SOA">> ->
                    IF data.k # "soa" \/ data.rname = NoString THEN Err("TypeError")
                    ELSE Soa(data, encodeName(E, data.mname, 2, TRUE))
              [] kind \in {<<"IN", "NS">>, <<"IN", "PTR">>, <<"IN", "CNAME">>} ->
                    IF data.k # "string" THEN Err("TypeError")
                    ELSE encodeName(E, data.str, 2, TRUE)
              [] kind = <<"IN", "TXT">> ->
                    [ok |-> TRUE, domains |-> E.domains,
                     octets |-> rdataTXT(IF data.k = "array" THEN data.list ELSE <<data.str>>)]
              [] kind = <<"IN", "SRV">> ->
                    IF data.k # "srv" THEN Err("TypeError")
                    ELSE Srv(data, encodeName(E, data.target, 2 + 6, FALSE))
              [] kind = <<"IN", "DS">> ->
                    IF data.k # "ds" THEN Err("TypeError")
                    ELSE [ok |-> TRUE, domains |-> E.domains,
                          octets |-> buf16(Num(data.keyTag))
                                     \o <<Octet(data.algorithm), Octet(data.digestType)>>
                                     \o OctetList(data.digest)]
              [] kind = <<"NONE", "A">> -> [ok |-> TRUE, domains |-> E.domains, octets |-> <<>>]
              [] OTHER -> Err("Unsupported record type")
    IN  Kind(<<record.class, record.type>>, record.data)

\* Encoder.record( sectionName, record )
EncoderRecord(E, sectionName, record) ==
    LET Rdata(head, E2, rdata) ==
            IF ~rdata.ok THEN rdata
            ELSE [ok |-> TRUE,
                  E |-> [E2 EXCEPT !.domains = rdata.domains,
                                   !.position = @ + 2 + Len(rdata.octets),
                                   ![sectionName] =
                                       Append(@, head \o buf32(Num(record.ttl))
                                                 \o buf16(Len(rdata.octets)) \o rdata.octets)]]
        After(head, E2) == Rdata(head, E2, rdataOf(E2, record))
        Head4(head, E1) ==
            IF sectionName = "question"
            THEN [ok |-> TRUE, E |-> [E1 EXCEPT ![sectionName] = Append(@, head)]]
            ELSE After(head, [E1 EXCEPT !.position = @ + 4])
        Fixed(name, head) ==
            Head4(head, [E EXCEPT !.domains = name.domains, !.position = @ + Len(head)])
        Numbers(name, type, classValue) ==
            IF ~type.ok THEN type
            ELSE IF ~classValue.ok THEN classValue
            ELSE Fixed(name, name.octets \o buf16(type.num) \o buf16(classValue.num))
        Named(name) ==
            IF ~name.ok THEN name
            ELSE Numbers(name, typeToNumber(record.type), classToNumber(record.class))
    IN  Named(encodeName(E, record.name, 0, TRUE))

\* the options of an OPT pseudo-RR: code, length, data of each
RECURSIVE ednsOptions(_)
ednsOptions(options) ==
    IF options = <<>> THEN <<>>
    ELSE buf16(Head(options).code) \o buf16(Len(Head(options).data)) \o Head(options).data
         \o ednsOptions(Tail(options))

\* what buf.writeUInt16BE( value ) accepts
MaxUInt16 == 65535

\* Encoder.ednsRecord( sectionName, record ): flags holds the extended result
\* shifted by 24 and the version shifted by 16, and is written as 16 bits, which
\* throws unless both are 0; the position leaves out the options and their length
EncoderEdnsRecord(E, sectionName, record) ==
    LET Written(edns, name, options) ==
            [ok |-> TRUE,
             E |-> [E EXCEPT !.position = @ + Len(name.octets) + 8,
                             ![sectionName] =
                                 Append(@, name.octets \o buf16(41) \o buf16(edns.udpSize)
                                           \o buf16(IF edns.flagDO THEN 32768 ELSE 0) \o <<0, 0>>
                                           \o buf16(Len(options)) \o options)]]
        Checked(edns) ==
            IF edns.udpSize > MaxUInt16 \/ edns.udpSize < 0 THEN Err("RangeError")
            ELSE IF edns.extendedResult % 256 # 0 \/ edns.version % 256 # 0 THEN Err("RangeError")
            ELSE Written(edns, encodeName(E, <<>>, 0, TRUE), ednsOptions(edns.options))
    IN  Checked(record.edns)

RECURSIVE EncoderRecords(_, _, _)
EncoderRecords(E, sectionName, records) ==
    LET Next1(r) == IF ~r.ok THEN r ELSE EncoderRecords(r.E, sectionName, Tail(records))
    IN  IF records = <<>> THEN [ok |-> TRUE, E |-> E]
        ELSE IF Head(records).edns.present
             THEN Next1(EncoderEdnsRecord(E, sectionName, Head(records)))
             ELSE Next1(EncoderRecord(E, sectionName, Head(records)))

RECURSIVE EncoderSections(_, _, _)
EncoderSections(E, msg, k) ==
    LET Next1(r) == IF ~r.ok THEN r ELSE EncoderSections(r.E, msg, k + 1)
    IN  IF k > Len(SECTIONS) THEN [ok |-> TRUE, E |-> E]
        ELSE Next1(EncoderRecords(E, SECTIONS[k], msg[SECTIONS[k]]))

\* opcodeNames.indexOf( msg.opcode ) alone
opcodeIndexOf(opcode) ==
    IF \E i \in 1..Len(opcodeNames) : opcodeNames[i] = opcode
    THEN (CHOOSE i \in 1..Len(opcodeNames) : opcodeNames[i] = opcode) - 1
    ELSE -1

\* opcodeNames.indexOf( msg.opcode ); null is found but is no string
opcodeIndex(opcode) ==
    IF opcode # null /\ \E i \in 1..Len(opcodeNames) : opcodeNames[i] = opcode
    THEN (CHOOSE i \in 1..Len(opcodeNames) : opcodeNames[i] = opcode) - 1
    ELSE -1

\* Encoder.message( msg ).toBinary()
EncoderMessage(msg) ==
    LET Binary(opcode, body) ==
            IF ~body.ok THEN body
            ELSE [ok |-> TRUE,
                  octets |-> buf16(msg.id)
                             \o << (IF msg.type = "response" THEN 128 ELSE 0) + (opcode % 16) * 8
                                   + (IF msg.authoritative THEN 4 ELSE 0)
                                   + (IF msg.truncated THEN 2 ELSE 0)
                                   + (IF msg.recursionDesired THEN 1 ELSE 0),
                                   (IF msg.recursionAvailable THEN 128 ELSE 0)
                                   + (IF msg.authenticated THEN 32 ELSE 0)
                                   + (IF msg.checkingDisabled THEN 16 ELSE 0)
                                   + (msg.responseCode % 16) >>
                             \o buf16(Len(body.E.question)) \o buf16(Len(body.E.answer))
                             \o buf16(Len(body.E.authority)) \o buf16(Len(body.E.additional))
                             \o Flatten(body.E.question) \o Flatten(body.E.answer)
                             \o Flatten(body.E.authority) \o Flatten(body.E.additional)]
        Opcode(opcode) ==
            IF opcode = -1 THEN Err("Unknown opcode")
            ELSE Binary(opcode, EncoderSections([NewEncoder EXCEPT !.position = 12], msg, 1))
    IN  Opcode(opcodeIndex(msg.opcode))

\* encode( message ) of the package API, for a message that is a DNSMessage
encode(message) == EncoderMessage(message)

(***************************************************************************)
(* Packets for the codec: messages in wire format, written octet by octet  *)
(* as RFC 1035 lays them out, with one question "a.b IN A" at offset 12    *)
(* (so "a.b" is at 12 and "b" at 14) and records taken from a pool.        *)
(***************************************************************************)
Label(str) == <<Len(str)>> \o str
Ptr(offset) == <<192 + (offset \div 256), offset % 256>>
RR(owner, type, class, ttl, rdata) ==
    owner \o buf16(type) \o buf16(class) \o buf32(ttl) \o buf16(Len(rdata)) \o rdata

QuestionAB == Label(<<97>>) \o Label(<<98>>) \o <<0>> \o buf16(1) \o buf16(1)

RecordPool ==
    << RR(Ptr(12), 1, 1, 60, <<10, 0, 0, 1>>),                                \* a.b A 10.0.0.1
       RR(Label(<<99>>) \o Ptr(14), 1, 1, 0, <<192, 168, 0, 255>>),           \* c.b A
       RR(Ptr(12), 28, 1, 60, <<32, 1, 13, 184, 0, 0, 0, 0, 0, 0, 0, 0, 0, 0, 0, 1>>),  \* AAAA 2001:0db8::1
       RR(Ptr(14), 2, 1, 3600, Label(<<110, 115>>) \o Ptr(14)),               \* b NS ns.b
       RR(Ptr(14), 6, 1, 3600,                                                \* b SOA ns.b hm.b
          Label(<<110, 115>>) \o Ptr(14) \o Label(<<104, 109>>) \o Ptr(14)
          \o buf32(7) \o buf32(3600) \o buf32(600) \o buf32(86400) \o buf32(300)),
       RR(Label(<<110, 115>>) \o Ptr(14), 1, 1, 60, <<10, 0, 0, 2>>),         \* ns.b A
       RR(Label(<<99>>) \o <<0>>, 5, 1, 60, Ptr(12)),                         \* c CNAME a.b
       RR(Ptr(12), 12, 1, 60, Label(<<112>>) \o Ptr(14)),                     \* PTR p.b
       RR(Ptr(12), 12, 1, 60, Label(<<109, 32, 112>>) \o Ptr(14)),            \* PTR "m p".b
       RR(Ptr(12), 16, 1, 60, <<1, 120, 2, 121, 122>>),                       \* TXT "x" "yz"
       RR(Ptr(12), 16, 1, 60, <<2, 104, 105>>),                               \* TXT "hi"
       RR(Ptr(12), 16, 1, 60, <<>>),                                          \* TXT without text
       RR(Ptr(14), 15, 1, 60, buf16(10) \o Label(<<109, 120>>) \o Ptr(12)),   \* b MX 10 mx.a.b
       RR(Label(<<109, 120>>) \o Ptr(12), 1, 1, 60, <<10, 0, 0, 3>>),         \* mx.a.b A
       RR(Ptr(12), 33, 1, 60,                                                 \* SRV 1 2 443 s.b
          buf16(1) \o buf16(2) \o buf16(443) \o Label(<<115>>) \o Ptr(14)),
       RR(Label(<<115>>) \o Ptr(14), 1, 1, 60, <<10, 0, 0, 4>>),              \* s.b A
       RR(Ptr(14), 43, 1, 60, <<18, 52, 8, 2, 1, 2, 3>>),                     \* DS
       RR(Ptr(14), 43, 1, 60, <<7>>),                                         \* DS of one octet
       RR(Ptr(12), 1, 254, 0, <<>>),                                          \* NONE A
       RR(Label(<<97, 46>>) \o <<0>>, 1, 1, 60, <<10, 0, 0, 5>>),             \* label "a." A
       RR(Ptr(14), 6, 1, 3600,                                                \* SOA, rname x@y.b
          Label(<<110, 115>>) \o Ptr(14) \o Label(<<120, 64, 121>>) \o Ptr(14)
          \o buf32(7) \o buf32(3600) \o buf32(600) \o buf32(86400) \o buf32(300)),
       RR(Ptr(12), 2, 1, 60, <<0>>),                                          \* NS root
       RR(Ptr(12), 13, 1, 60, <<1, 120, 1, 121>>),                            \* HINFO
       RR(Ptr(12), 1, 1, 60, <<10, 0, 0>>) >>                                 \* A of three octets

\* flag octets of the header: query with RD, response with AA, RA and NXDOMAIN,
\* opcode 3 (unassigned), update with CD
HeaderPool == << <<1, 0>>, <<132, 131>>, <<24, 0>>, <<40, 16>> >>

MaxRecords == 2
Strides == {1, 5}
Places == {"answer", "authority", "additional"}

\* n records of the pool from `start` on, `stride` apart
Picked(start, stride, n) ==
    [j \in 1..n |-> RecordPool[((start - 1 + (j - 1) * stride) % Len(RecordPool)) + 1]]

\* the packet: the last picked record goes to section `place`, the others to answer
Packet(h, start, stride, n, place) ==
    LET last == IF n > 0 THEN 1 ELSE 0
        an == IF place = "answer" THEN n ELSE n - last
    IN  buf16(4660) \o HeaderPool[h] \o buf16(1) \o buf16(an)
        \o buf16(IF place = "authority" THEN last ELSE 0)
        \o buf16(IF place = "additional" THEN last ELSE 0)
        \o QuestionAB \o Flatten(Picked(start, stride, n))

Packets ==
    {Packet(h, start, stride, n, place) :
        h \in 1..Len(HeaderPool), start \in 1..Len(RecordPool), stride \in Strides,
        n \in 0..MaxRecords, place \in Places}

NotYet == Err("not yet")

\* const message = decode( packet )
CodecDecode ==
    /\ codec.pc = "packet"
    /\ codec' = [codec EXCEPT !.pc = "decoded", !.decoded = decode(codec.packet)]
    /\ UNCHANGED <<server, conn, net, log, zone, resp>>

\* const again = encode( message )
CodecEncode ==
    /\ codec.pc = "decoded"
    /\ codec.decoded.ok
    /\ codec' = [codec EXCEPT !.pc = "encoded", !.encoded = encode(codec.decoded.msg)]
    /\ UNCHANGED <<server, conn, net, log, zone, resp>>

\* decode( again )
CodecRedecode ==
    /\ codec.pc = "encoded"
    /\ codec.encoded.ok
    /\ codec' = [codec EXCEPT !.pc = "redecoded", !.redecoded = decode(codec.encoded.octets)]
    /\ UNCHANGED <<server, conn, net, log, zone, resp>>

(***************************************************************************)
(* PART 1 - server lifecycle (DNSServer constructor, listen, close).       *)
(***************************************************************************)
Sockets == {"udp", "tcp"}
notLife == <<conn, net, log, zone, codec, resp>>
Other(s) == IF s = "udp" THEN "tcp" ELSE "udp"

SrvInit ==
    [ sock       |-> [s \in Sockets |-> "idle"],     \* idle, binding, listening, closing, closed
      listening  |-> [s \in Sockets |-> FALSE],      \* const listening = { tcp: false, udp: false }
      promise    |-> [s \in Sockets |-> "none"],     \* the two promises of listen()
      thenState  |-> "none",                         \* reaction of Promise.all: none, queued, done
      ticks      |-> <<>>,                           \* process.nextTick queue
      fnGiven    |-> FALSE,
      fnCalls    |-> 0,
      closing    |-> FALSE,                          \* this.$closing
      closeCalls |-> 0,                              \* close() calls made by the user
      closeAsked |-> [s \in Sockets |-> 0],          \* udp.close() / tcp.close() calls made
      closeCbs   |-> 0,                              \* callbacks handed to tcp.close()
      cbsRun     |-> 0,                              \* of which have run
      emitted    |-> [listening |-> 0, close |-> 0, error |-> 0],   \* events of the server
      sockEmits  |-> [s \in Sockets |-> 0],          \* 'listening' re-emitted on a socket
      thrown     |-> 0 ]                             \* exceptions escaping a call or handler

\* The object `this` of the constructor's 'listening' handlers: they are
\* function expressions, so `this` is the emitter (the socket), not the server.
ListeningHandlerThisArrow == "server"
ListeningHandlerThis == "socket"

\* this.udp.once( "listening", function() { listening.udp = true; if ( listening.tcp ) this.emit( "listening" ); } )
CtorListeningHandler(S, s) ==
    LET S1 == [S EXCEPT !.listening[s] = TRUE]
    IN  IF ~S.listening[Other(s)] THEN S1
        ELSE IF ListeningHandlerThis = "server"
             THEN [S1 EXCEPT !.emitted.listening = @ + 1]
             ELSE [S1 EXCEPT !.sockEmits[s] = @ + 1]

\* Promise.all( [ ... ] ) of listen(): fulfilled when both promises are
PromiseAllSettled(S) == \A s \in Sockets : S.promise[s] = "resolved"

\* this.udp.once( "listening", resolve ) inside listen()
ListenResolveHandler(S, s) ==
    IF S.promise[s] # "pending" THEN S
    ELSE LET S1 == [S EXCEPT !.promise[s] = "resolved"]
         IN  IF PromiseAllSettled(S1) /\ S1.thenState = "none"
             THEN [S1 EXCEPT !.thenState = "queued"]
             ELSE S1

\* listen( port, ip, callback )
Listen(hasFn) ==
    /\ \A s \in Sockets : server.sock[s] = "idle"
    /\ server' = [server EXCEPT !.sock = [s \in Sockets |-> "binding"],
                          !.promise = [s \in Sockets |-> "pending"],
                          !.fnGiven = hasFn]
    /\ UNCHANGED notLife

\* a socket reports 'listening': the constructor's handler, then listen()'s
SocketListening(s) ==
    /\ server.sock[s] = "binding"
    /\ server' = ListenResolveHandler(
                 CtorListeningHandler([server EXCEPT !.sock[s] = "listening"], s), s)
    /\ UNCHANGED notLife

\* .then( () => { if ( fn ) process.nextTick( fn ); process.nextTick( () => this.emit( "listening" ) ); } )
ListenThen ==
    /\ server.thenState = "queued"
    /\ server' = [server EXCEPT !.thenState = "done",
                          !.ticks = @ \o (IF server.fnGiven THEN <<"fn">> ELSE <<>>) \o <<"listening">>]
    /\ UNCHANGED notLife

RunTick ==
    /\ server.ticks # <<>>
    /\ server' = IF Head(server.ticks) = "fn"
              THEN [server EXCEPT !.ticks = Tail(@), !.fnCalls = @ + 1]
              ELSE [server EXCEPT !.ticks = Tail(@), !.emitted.listening = @ + 1]
    /\ UNCHANGED notLife

\* if ( !this.$closing ): the guard of close()
CloseGuardNone(S) == TRUE
CloseGuard(S) == ~S.closing

\* close() without this.udp.close()
CloseOpTcpOnly(S) ==
    IF S.closing THEN S
    ELSE [S EXCEPT !.closing = TRUE, !.sock.tcp = "closing", !.closeAsked.tcp = @ + 1,
                   !.closeCbs = @ + 1]

\* close(): udp.close() throws when the socket is not running any more
CloseOp(S) ==
    IF ~CloseGuard(S) THEN S
    ELSE LET S1 == [S EXCEPT !.closing = TRUE, !.closeAsked.udp = @ + 1]
         IN  IF S.sock.udp \in {"closing", "closed"}
             THEN [S1 EXCEPT !.thrown = @ + 1]
             ELSE [S1 EXCEPT !.sock.udp = "closing",
                             !.sock.tcp = "closing",
                             !.closeAsked.tcp = @ + 1,
                             !.closeCbs = @ + 1]

Close ==
    /\ server.closeCalls < MaxCloseCalls
    /\ server' = CloseOp([server EXCEPT !.closeCalls = @ + 1])
    /\ UNCHANGED notLife

\* this.udp.on( "close", () => { this.close(); } )
UdpClosed ==
    /\ server.sock.udp = "closing"
    /\ server' = CloseOp([server EXCEPT !.sock.udp = "closed"])
    /\ UNCHANGED notLife

\* this.tcp.on( "close", () => { this.close(); } ), then the callbacks of tcp.close( cb )
TcpClosed ==
    /\ server.sock.tcp = "closing"
    /\ LET pending == server.closeCbs - server.cbsRun
           S1 == CloseOp([server EXCEPT !.sock.tcp = "closed"])
       IN  server' = [S1 EXCEPT !.cbsRun = @ + pending,
                             !.emitted.close = @ + pending,
                             !.sock.tcp = "closed"]
    /\ UNCHANGED notLife

NextLife ==
    \/ \E hasFn \in BOOLEAN : Listen(hasFn)
    \/ \E s \in Sockets : SocketListening(s)
    \/ ListenThen
    \/ RunTick
    \/ Close
    \/ UdpClosed
    \/ TcpClosed

ConnInit == [expecting |-> -1, received |-> 0, chunks |-> <<>>]
NetInit == [written |-> <<>>, tcp |-> <<>>, delivered |-> 0, chunks |-> 0, datagram |-> <<>>]
LogInit == [handled |-> <<>>, dispatchedNow |-> FALSE, crashed |-> FALSE]
ZoneInit == [zones |-> <<>>, asked |-> <<>>, result |-> NotYet]
CodecInit ==
    [pc |-> "idle", packet |-> <<>>, decoded |-> NotYet, encoded |-> NotYet, redecoded |-> NotYet]
RespInit ==
    [state |-> "none", via |-> "", response |-> NotYet, pushed |-> 0,
     value |-> [k |-> "undefined"], outcome |-> NotYet]

InitLife ==
    /\ server = SrvInit
    /\ conn = ConnInit
    /\ net = NetInit
    /\ log = LogInit
    /\ zone = ZoneInit
    /\ codec = CodecInit
    /\ resp = RespInit

SpecLife == InitLife /\ [][NextLife]_vars

BothListening == \A s \in Sockets : server.listening[s]

\* C5: after listen() the server emits 'listening' at most once, never before
\* both sockets have reported 'listening', and exactly once when both have and
\* the reaction of listen() and its ticks have run.
C5_ListeningOnce ==
    /\ server.emitted.listening <= 1
    /\ (server.emitted.listening >= 1 => BothListening)
    /\ (BothListening /\ server.thenState = "done" /\ server.ticks = <<>>
            => server.emitted.listening = 1)

C5_Witness ==
    /\ BothListening
    /\ server.emitted.listening = 1
    /\ server.sockEmits.udp = 1

\* C6: whatever close() calls and socket 'close' events happen, each socket is
\* asked to close at most once and the server emits 'close' at most once; once
\* close() was called and the TCP server has closed, it has emitted it once.
C6_CloseOnce ==
    /\ \A s \in Sockets : server.closeAsked[s] <= 1
    /\ server.emitted.close <= 1
    /\ (server.closing /\ server.sock.tcp = "closed" => server.emitted.close = 1)

C6_Witness ==
    /\ server.closeCalls = 2
    /\ server.sock.tcp = "closed"
    /\ server.sock.udp = "closed"
    /\ server.emitted.close = 1

InitCodec ==
    /\ server = SrvInit
    /\ conn = ConnInit
    /\ net = NetInit
    /\ log = LogInit
    /\ zone = ZoneInit
    /\ \E packet \in Packets : codec = [CodecInit EXCEPT !.pc = "packet", !.packet = packet]
    /\ resp = RespInit

NextCodec ==
    \/ CodecDecode
    \/ CodecEncode
    \/ CodecRedecode

SpecCodec == InitCodec /\ [][NextCodec]_vars

\* a domain name in dotted notation made of labels of 1 to 63 characters
\* without whitespace (the root name has none)
PlainName(name) ==
    \/ name = <<>>
    \/ \A i \in 1..Len(Split(name, DOT)) :
          /\ Len(Split(name, DOT)[i]) \in 1..MaxLabel
          /\ \A j \in 1..Len(Split(name, DOT)[i]) : ~IsSpace(Split(name, DOT)[i][j])

CountOf(str, c) == Cardinality({i \in 1..Len(str) : str[i] = c})

\* the names in the data of a decoded record are plain, the mail address of
\* an SOA record has one "@" at most, a DS record has its three numbers
PlainData(type, data) ==
    CASE type \in {"NS", "CNAME", "PTR"} -> PlainName(data.str)
      [] type = "MX" -> PlainName(data.name)
      [] type = "SRV" -> PlainName(data.target)
      [] type = "SOA" ->
            /\ PlainName(data.mname)
            /\ CountOf(data.rname, AT) <= 1
            /\ PlainName([i \in 1..Len(data.rname) |->
                             IF data.rname[i] = AT THEN DOT ELSE data.rname[i]])
      [] type = "DS" -> data.digestType # undefined
      [] OTHER -> TRUE

PlainMessage(msg) ==
    /\ msg.opcode # null
    /\ \A i \in 1..Len(msg.question) : PlainName(msg.question[i].name)
    /\ \A s \in {"answer", "authority", "additional"} : \A i \in 1..Len(msg[s]) :
          PlainName(msg[s][i].name) /\ PlainData(msg[s][i].type, msg[s][i].data)

notZone == <<server, conn, net, log, codec, resp>>

\* this.zones = {}: a plain object, so a name it does not hold itself is looked
\* up in Object.prototype; "constructor" stands for the members found there
ObjectPrototype == {<<99, 111, 110, 115, 116, 114, 117, 99, 116, 111, 114>>}

\* server.zones[name]
zonesGet(zones, name) ==
    IF name \in DOMAIN zones THEN [found |-> "own", record |-> zones[name]]
    ELSE IF name \in ObjectPrototype THEN [found |-> "inherited"]
    ELSE [found |-> "none"]

\* zone( domainName, primaryNameServer, adminAddress, serial, refresh, retry,
\* expire, ttl ) with numbers for the serial and the durations: the record
zoneRecord(domainName, primaryNameServer, adminAddress, serial, refresh, retry, expire, ttl) ==
    [edns |-> NoEDNS, name |-> domainName, class |-> "IN", type |-> "SOA", ttl |-> undefined,
     data |-> [k |-> "soa", mname |-> primaryNameServer, rname |-> adminAddress,
               serial |-> serial, refresh |-> refresh, retry |-> retry, expire |-> expire,
               ttl |-> ttl]]

\* this.zones[record.name] = record
zoneSet(zones, record) ==
    [n \in DOMAIN zones \cup {record.name} |-> IF n = record.name THEN record ELSE zones[n]]

\* findZoneForName( name ); soaRecord.found = "none" is the null it returns
RECURSIVE findZoneForName(_, _)
findZoneForName(zones, name) ==
    LET Stripped(split) ==
            IF ~split.match THEN Err("invalid name in query")
            ELSE findZoneForName(zones, split.rest)
        Looked(soaRecord) ==
            IF soaRecord.found # "none" THEN [ok |-> TRUE, soaRecord |-> soaRecord]
            ELSE Stripped(NameSplit(name))
    IN  IF Len(name) = 0 THEN [ok |-> TRUE, soaRecord |-> [found |-> "none"]]
        ELSE Looked(zonesGet(zones, name))

\* names of zones and of questions: c, b.c, a.b.c, d, x.b.c, ab.c, "a b.c",
\* b..c, constructor, and the name of the root
NameC == <<99>>
NameBC == <<98, DOT, 99>>
NameABC == <<97, DOT, 98, DOT, 99>>
ZoneNames == {NameC, NameBC, NameABC}
AskedNames ==
    ZoneNames \cup ObjectPrototype
    \cup {<<100>>, <<120, DOT, 98, DOT, 99>>, <<97, 98, DOT, 99>>, <<97, 32, 98, DOT, 99>>,
          <<98, DOT, DOT, 99>>, <<>>}

\* server.zone( name, "ns." + name, "hm@" + name, 1, 3600, 600, 86400, 300 )
ZoneAdd(name) ==
    /\ name \notin DOMAIN zone.zones
    /\ zone' = [zone EXCEPT
                  !.zones = zoneSet(@, zoneRecord(name, <<110, 115, DOT>> \o name,
                                                  <<104, 109, AT>> \o name,
                                                  1, 3600, 600, 86400, 300))]
    /\ UNCHANGED notZone

\* response.findZoneForName( name )
ZoneFind(name) ==
    /\ zone' = [zone EXCEPT !.asked = name, !.result = findZoneForName(zone.zones, name)]
    /\ UNCHANGED notZone

InitZone ==
    /\ server = SrvInit
    /\ conn = ConnInit
    /\ net = NetInit
    /\ log = LogInit
    /\ zone = ZoneInit
    /\ codec = CodecInit
    /\ resp = RespInit

NextZone ==
    \/ \E name \in ZoneNames : ZoneAdd(name)
    \/ \E name \in AskedNames : ZoneFind(name)

SpecZone == InitZone /\ [][NextZone]_vars

\* z is n or a suffix of n that starts after a dot of n
SuffixAtLabel(z, n) ==
    \/ z = n
    \/ /\ Len(z) < Len(n)
       /\ SubSeq(n, Len(n) - Len(z) + 1, Len(n)) = z
       /\ n[Len(n) - Len(z)] = DOT

Covering(zones, n) == {z \in DOMAIN zones : z # <<>> /\ SuffixAtLabel(z, n)}

\* C10: for a name n of well-formed labels, findZoneForName(n) returns the SOA
\* record of the registered zone whose name is the longest suffix of n at a
\* label boundary (n itself included), and none when no registered zone is
\* such a suffix.
C10_LongestSuffix ==
    (zone.result # NotYet /\ PlainName(zone.asked)) =>
        /\ zone.result.ok
        /\ IF Covering(zone.zones, zone.asked) = {}
           THEN zone.result.soaRecord.found = "none"
           ELSE /\ zone.result.soaRecord.found = "own"
                /\ zone.result.soaRecord.record.name \in Covering(zone.zones, zone.asked)
                /\ \A z \in Covering(zone.zones, zone.asked) :
                       Len(z) <= Len(zone.result.soaRecord.record.name)
                /\ zone.result.soaRecord.record = zone.zones[zone.result.soaRecord.record.name]

(***************************************************************************)
(* PART 3 - the receive paths of the server: onUdp, onTcpConnection, the   *)
(* EDNS check before the 'request' event, and DNSResponse.end().  What a   *)
(* handler did with one message is one entry of log.handled.               *)
(***************************************************************************)
notRecv == <<server, codec>>

\* the response codes that the server names
RCODES == [FORMERR |-> 1, BADVERS |-> 16]

DefaultOptions == [ttl |-> 3600]

\* message.findEDNSRecords(): the OPT pseudo-RRs of the message, each with the
\* name of its section
IsEDNS(record) == record.edns.present

ednsRecordsIn(msg, sectionName) ==
    LET Tagged(found) ==
            [i \in 1..Len(found) |-> [section |-> sectionName, record |-> found[i]]]
    IN  Tagged(SelectSeq(msg[sectionName], IsEDNS))

findEDNSRecords(msg) ==
    ednsRecordsIn(msg, "question") \o ednsRecordsIn(msg, "answer")
    \o ednsRecordsIn(msg, "authority") \o ednsRecordsIn(msg, "additional")

\* new DNSRequest( query, connection )
DNSRequest(query) == DNSMessageParseIn(TRUE, query)

\* new DNSResponse( data, connection ): ednsRecords is an array, so reading
\* ednsRecords.record.edns is a TypeError; it is read for exactly one OPT
\* pseudo-RR in the additional section
DNSResponse(data) ==
    LET Built(msg, ednsRecords) ==
            IF Len(ednsRecords) = 1 /\ ednsRecords[1].section = "additional"
            THEN Err("TypeError")
            ELSE [ok |-> TRUE,
                  msg |-> [requestorEDNS |-> NoEDNS] @@ [msg EXCEPT !.type = "response"]]
        Parsed(r) == IF ~r.ok THEN r ELSE Built(r.msg, findEDNSRecords(r.msg))
    IN  Parsed(DNSMessageParseIn(TRUE, data))

\* addEDNSReply( response, requestorEDNS )
addEDNSReply(response, requestorEDNS) ==
    [response EXCEPT !.additional =
        Append(@, [edns |-> [present |-> TRUE,
                             udpSize |-> IF requestorEDNS.present /\ requestorEDNS.udpSize # 0
                                         THEN Max(requestorEDNS.udpSize, 512) ELSE 512,
                             extendedResult |-> 0, version |-> 0, flagDO |-> FALSE,
                             flags |-> 0, options |-> <<>>],
                   name |-> <<>>, class |-> "IN", type |-> "OPT"])]

\* wellFormedRecord of the older server.js: record.class = record.class || "IN";
\* record.ttl = Math.max( record.ttl || 1, minTTL )
wellFormedRecordAtLeast(record, minTTL) ==
    [record EXCEPT !.class = IF @ = null THEN "IN" ELSE @,
                   !.ttl = Max(IF @ \in {0, undefined} THEN 1 ELSE @, minTTL)]

\* if ( !record.class ) record.class = "IN"
wellFormedClass(record) ==
    IF "class" \in DOMAIN record /\ record.class = null
    THEN [record EXCEPT !.class = "IN"] ELSE record

\* wellFormedRecord( record, minTTL ) of end()
wellFormedRecord(record, minTTL) ==
    IF ~record.edns.present /\ record.ttl \in {0, undefined}
    THEN [wellFormedClass(record) EXCEPT !.ttl = minTTL] ELSE wellFormedClass(record)

wellFormedRecords(records, minTTL) ==
    [i \in 1..Len(records) |-> wellFormedRecord(records[i], minTTL)]

\* socket.send( response ) without its tests of response.length
SocketSendAnyLength(via, some, octets) ==
    IF ~some THEN [rejected |-> "", sent |-> <<>>, ended |-> via = "tcp"]
    ELSE [rejected |-> "", sent |-> <<octets>>, ended |-> via = "tcp"]

\* socket.send( response ) of onTcpConnection and of onUdp; response = null is
\* octets = <<>> with some = FALSE
SocketSend(via, some, octets) ==
    IF ~some THEN [rejected |-> "", sent |-> <<>>, ended |-> via = "tcp"]
    ELSE IF via = "tcp" /\ Len(octets) > MaxUInt16
    THEN [rejected |-> "TCP responses greater than 65535 bytes not supported",
          sent |-> <<>>, ended |-> FALSE]
    ELSE IF via = "udp" /\ Len(octets) > 512
    THEN [rejected |-> "UDP responses greater than 512 bytes not yet implemented",
          sent |-> <<>>, ended |-> FALSE]
    ELSE [rejected |-> "", sent |-> <<octets>>, ended |-> via = "tcp"]

\* Math.max( ( soaRecord ? soaRecord.data.ttl : options.ttl ) || 1, 1 ) for the
\* record of a zone, the only soaRecord that gets here
minTTLOf(soaRecord, options) ==
    IF soaRecord.data.ttl \in {0, undefined} THEN 1 ELSE Max(soaRecord.data.ttl, 1)

\* new DNSMessage( body ) for an object: Object.assign( this, body ), then
\* every section is set to a new empty array.  A property the object lacks
\* stays null, which the encoder reads as false and as 0.
Property(body, name, ifNull) == IF name \in DOMAIN body THEN body[name] ELSE ifNull

DNSMessageOfObject(body) ==
    [id |-> Property(body, "id", 0), type |-> Property(body, "type", null),
     responseCode |-> Property(body, "responseCode", 0),
     opcode |-> Property(body, "opcode", null),
     authoritative |-> Property(body, "authoritative", FALSE),
     truncated |-> Property(body, "truncated", FALSE),
     recursionDesired |-> Property(body, "recursionDesired", FALSE),
     recursionAvailable |-> Property(body, "recursionAvailable", FALSE),
     authenticated |-> Property(body, "authenticated", FALSE),
     checkingDisabled |-> Property(body, "checkingDisabled", FALSE),
     question |-> <<>>, answer |-> <<>>, authority |-> <<>>, additional |-> <<>>]

\* new DNSResponse( value, this.connection ) for an object
DNSResponseOfObject(body) ==
    [requestorEDNS |-> NoEDNS] @@ [DNSMessageOfObject(body) EXCEPT !.type = "response"]

\* the values end() is called with
NoValue == [k |-> "undefined"]
StringValue(str) == [k |-> "string", str |-> str]
ArrayValue(list) == [k |-> "array", list |-> list]
ObjectValue(body) == [k |-> "object", body |-> body]

\* end( value ): `this` and `that` after the test of the value
endThis(this, value) ==
    IF value.k = "array" THEN [this EXCEPT !.answer = @ \o value.list] ELSE this

endThat(this, value) ==
    IF value.k = "object" THEN DNSResponseOfObject(value.body) ELSE endThis(this, value)

\* that.answer.push( { class: "IN", type: "A", name: question.name, data: value } )
simpleAnswer(name, str) ==
    [edns |-> NoEDNS, name |-> name, class |-> "IN", type |-> "A", ttl |-> undefined,
     data |-> [k |-> "string", str |-> str]]

\* case "IN A": typeof value == "string" && answer.length === 0
simpleAnswerNever(that, value) == FALSE
simpleAnswerFits(that, value) == value.k = "string" /\ Len(that.answer) = 0

\* case "IN SOA": questions.length === 1 && answer.length === 0 &&
\* soaRecord.name === question.name
ownsSOANever(that, question, soaRecord) == FALSE
ownsSOA(that, question, soaRecord) ==
    Len(that.question) = 1 /\ Len(that.answer) = 0 /\ soaRecord.name = question.name

\* questions.length === 1 && answer.length === 0 && authority.length === 0
lacksRecordsNever(that) == FALSE
lacksRecords(that) ==
    Len(that.question) = 1 /\ Len(that.answer) = 0 /\ Len(that.authority) = 0

\* end(): the loop over the questions from question i on.  The record of a
\* zone that is pushed is the object in server.zones, so what wellFormedRecord
\* sets is set there too.  A member of Object.prototype found as the zone has
\* no data, and reading its ttl is a TypeError.  `rejected` is the reason of
\* the Promise.reject the loop returns with.
RECURSIVE endQuestions(_, _, _, _, _)
endQuestions(that, value, zones, options, i) ==
    LET Fixed(that2, soaRecord, minTTL, pushed) ==
            endQuestions([that2 EXCEPT !.answer = wellFormedRecords(@, minTTL),
                                       !.authority = wellFormedRecords(@, minTTL),
                                       !.additional = wellFormedRecords(@, minTTL)],
                         value,
                         IF pushed
                         THEN [zones EXCEPT ![soaRecord.name] = wellFormedRecord(@, minTTL)]
                         ELSE zones,
                         options, i + 1)
        Authority(that2, soaRecord, pushed) ==
            IF lacksRecords(that2)
            THEN Fixed([that2 EXCEPT !.authority = Append(@, soaRecord)], soaRecord,
                       minTTLOf(soaRecord, options), TRUE)
            ELSE Fixed(that2, soaRecord, minTTLOf(soaRecord, options), pushed)
        Own(question, soaRecord) ==
            IF question.class = "IN" /\ question.type = "A"
            THEN IF simpleAnswerFits(that, value)
                 THEN IF Len(that.question) > 1
                      THEN [ok |-> TRUE, that |-> that, zones |-> zones,
                            rejected |-> "can't handle simple answer to multiple questions"]
                      ELSE Authority([that EXCEPT !.answer =
                                          Append(@, simpleAnswer(question.name, value.str))],
                                     soaRecord, FALSE)
                 ELSE Authority(that, soaRecord, FALSE)
            ELSE IF /\ question.class = "IN" /\ question.type = "SOA"
                    /\ ownsSOA(that, question, soaRecord)
            THEN Authority([that EXCEPT !.answer = Append(@, soaRecord)], soaRecord, TRUE)
            ELSE Authority(that, soaRecord, FALSE)
        Found(question, z) ==
            IF ~z.ok THEN z
            ELSE IF z.soaRecord.found = "none"
            THEN endQuestions(that, value, zones, options, i + 1)
            ELSE IF z.soaRecord.found = "inherited" THEN Err("TypeError")
            ELSE Own(question, z.soaRecord.record)
    IN  IF i > Len(that.question)
        THEN [ok |-> TRUE, that |-> that, zones |-> zones, rejected |-> ""]
        ELSE Found(that.question[i], findZoneForName(zones, that.question[i].name))

\* ednsResponse.edns.extendedResult = value, for the first OPT pseudo-RR found
setExtendedResult(that, found, value) ==
    LET At(sectionName, i) ==
            [that EXCEPT ![sectionName] = [@ EXCEPT ![i].edns.extendedResult = value]]
    IN  At(found.section,
           CHOOSE i \in 1..Len(that[found.section]) :
               /\ IsEDNS(that[found.section][i])
               /\ \A h \in 1..(i - 1) : ~IsEDNS(that[found.section][h]))

\* end(): the block that ensures an OPT pseudo-RR in the response if required,
\* and sets its extended result; `rejected` is the reason of Promise.reject
endEDNS(that) ==
    LET Kept == [rejected |-> "", that |-> that]
        Extended(that2, ednsRecords) ==
            IF that2.responseCode > 15
            THEN [rejected |-> "",
                  that |-> setExtendedResult(that2, ednsRecords[1],
                                             (that2.responseCode % 4096) \div 16)]
            ELSE [rejected |-> "", that |-> that2]
        Added(that2) == Extended(that2, findEDNSRecords(that2))
        Required(ednsRecords) ==
            IF Len(ednsRecords) > 1
            THEN [rejected |-> "invalid number or location of EDNS record(s) in response",
                  that |-> that]
            ELSE IF Len(ednsRecords) > 0 THEN Extended(that, ednsRecords)
            ELSE Added(addEDNSReply(that, that.requestorEDNS))
    IN  IF that.requestorEDNS.present \/ that.responseCode > 15
        THEN Required(findEDNSRecords(that)) ELSE Kept

\* what end() leaves: an exception it threw, the reason its promise was
\* rejected with, what the socket sent, the zones of the server, and the
\* response it had to send
endOutcome(thrown, send, zones, that) ==
    [thrown |-> thrown, rejected |-> send.rejected, sent |-> send.sent,
     ended |-> send.ended, zones |-> zones, response |-> that]

endNotSent(rejected) == [rejected |-> rejected, sent |-> <<>>, ended |-> FALSE]

\* that.answer.length > 0 || this.authority.length > 0
hasRecordsAlways(that, this) == TRUE
hasRecords(that, this) == Len(that.answer) > 0 \/ Len(this.authority) > 0

\* end(): return that.connection.send( that.answer.length > 0 ||
\* this.authority.length > 0 ? that.toBinary() : null ); e.that is `this`
\* after the block of the OPT pseudo-RR
endSend(via, e, that, zones) ==
    LET Transmit(binary) ==
            IF ~binary.ok THEN endOutcome(binary.err, endNotSent(""), zones, that)
            ELSE endOutcome("", SocketSend(via, TRUE, binary.octets), zones, that)
    IN  IF e.rejected # "" THEN endOutcome("", endNotSent(e.rejected), zones, that)
        ELSE IF hasRecords(that, e.that) THEN Transmit(EncoderMessage(that))
        ELSE endOutcome("", SocketSend(via, FALSE, <<>>), zones, that)

\* `that` is `this` unless end() adopted an object
endSendFor(via, e, adopted, q) ==
    endSend(via, e, IF adopted THEN q.that ELSE e.that, q.zones)

\* end(): what follows the loop over the questions
endAfterQuestions(via, zones, this, adopted, q) ==
    IF ~q.ok THEN endOutcome(q.err, endNotSent(""), zones, this)
    ELSE IF q.rejected # "" THEN endOutcome("", endNotSent(q.rejected), q.zones, q.that)
    ELSE endSendFor(via, endEDNS(IF adopted THEN this ELSE q.that), adopted, q)

\* that.recursionAvailable = false; that.authoritative = true
endForcedNot(that) == that
endForced(that) == [that EXCEPT !.recursionAvailable = FALSE, !.authoritative = TRUE]

\* response.end( value ), on a response of the socket `via`
end(this, value, via, zones, options) ==
    endAfterQuestions(via, zones, endThis(this, value), value.k = "object",
                      endQuestions(endForced(endThat(this, value)), value, zones, options, 1))

\* response.end() without a value
DNSResponseEnd(this, via, zones, options) == end(this, NoValue, via, zones, options)

\* respondOnInvalidEDNS( response, requestorEDNS, resultCode ); the catch of
\* the promise of end() writes to the console
respondOnInvalidEDNS(response, requestorEDNS, resultCode, via, zones, options) ==
    DNSResponseEnd([addEDNSReply(response, requestorEDNS) EXCEPT !.responseCode = resultCode],
                   via, zones, options)

\* an EDNS check that lets every request through
isValidEDNSAlways(request, response, via, zones, options) ==
    [valid |-> TRUE, thrown |-> "", rejected |-> "", sent |-> <<>>, ended |-> FALSE,
     zones |-> zones]

\* isValidEDNS( request, response ) once the OPT pseudo-RRs of the request are
\* found, with what its response did
ednsChecked(records, response, via, zones, options) ==
    LET Responded(out) == [valid |-> FALSE] @@ out
        Misplaced ==
            Len(records) > 1 \/ (Len(records) = 1 /\ records[1].section # "additional")
        Versioned == Len(records) = 1 /\ records[1].record.edns.version > 0
    IN  IF Misplaced \/ Versioned
        THEN Responded(respondOnInvalidEDNS(
                           response,
                           IF Misplaced THEN NoEDNS ELSE records[1].record.edns,
                           IF Misplaced THEN RCODES.FORMERR ELSE RCODES.BADVERS,
                           via, zones, options))
        ELSE [valid |-> TRUE, thrown |-> "", rejected |-> "", sent |-> <<>>,
              ended |-> FALSE, zones |-> zones]

isValidEDNS(request, response, via, zones, options) ==
    ednsChecked(findEDNSRecords(request), response, via, zones, options)

\* one entry of log.handled, and the zones of the server afterwards
dispatchEntry(message, via, at, emitted, thrown, out) ==
    [entry |-> [via |-> via, at |-> at, message |-> message, emitted |-> emitted,
                thrown |-> thrown, rejected |-> out.rejected, sent |-> out.sent,
                ended |-> out.ended],
     zones |-> out.zones]

\* if ( this.isValidEDNS( request, response ) ) this.emit( "request", request, response )
dispatchChecked(message, via, at, v) ==
    dispatchEntry(message, via, at, v.valid /\ v.thrown = "", v.thrown, v)

\* the request and the response of a message, each made or an exception
dispatchMade(message, via, at, zones, options, request, response) ==
    IF ~request.ok
    THEN dispatchEntry(message, via, at, FALSE, request.err,
                       endOutcome("", endNotSent(""), zones, NotYet))
    ELSE IF ~response.ok
    THEN dispatchEntry(message, via, at, FALSE, response.err,
                       endOutcome("", endNotSent(""), zones, NotYet))
    ELSE dispatchChecked(message, via, at,
                         isValidEDNS(request.msg, response.msg, via, zones, options))

\* what onUdp and the data handler of onTcpConnection do with one message:
\* request, response, the EDNS check and the 'request' event.  `at` is the
\* number of octets the connection had delivered by then (0 for a datagram).
Dispatch(message, via, at, zones, options) ==
    dispatchMade(message, via, at, zones, options, DNSRequest(message), DNSResponse(message))

\* buf.slice( start ): a negative start counts from the end
SliceFrom(buf, start) == DropFirst(buf, IF start < 0 THEN Max(Len(buf) + start, 0) ELSE start)

\* while ( chunks[0].length < 2 ) chunks.splice( 0, 2, Buffer.concat( chunks.slice( 0, 2 ) ) )
RECURSIVE mergeHead(_)
mergeHead(chunks) ==
    IF Len(chunks) >= 2 /\ Len(chunks[1]) < 2
    THEN mergeHead(<<chunks[1] \o chunks[2]>> \o DropFirst(chunks, 2))
    ELSE chunks

\* connection.on( "data", chunk => ... ) of onTcpConnection, on the variables
\* expecting, received and chunks of its closure: the chunk is kept and the
\* length is read once two octets are there
tcpLength(C, chunk) ==
    LET Merged(C1, chunks) == [C1 EXCEPT !.chunks = chunks, !.expecting = U16(chunks[1], 0)]
        Pushed(C1) ==
            IF C1.expecting < 0 /\ C1.received >= 2 THEN Merged(C1, mergeHead(C1.chunks))
            ELSE C1
    IN  Pushed([C EXCEPT !.chunks = Append(@, chunk), !.received = @ + Len(chunk)])

\* const buf = Buffer.concat( chunks ).slice( 2 )
tcpBuf(C) == DropFirst(Flatten(C.chunks), 2)

\* the end of the handler, after the message went to Dispatch; an exception
\* leaves the variables as they were when it was thrown
tcpCarved(C, buf, d) ==
    IF d.entry.thrown # ""
    THEN [conn |-> C, dispatched |-> TRUE, entry |-> d.entry, zones |-> d.zones]
    ELSE [conn |-> [expecting |-> -1,
                    received |-> Len(buf) - (-1),
                    chunks |-> IF Len(buf) - (-1) > 0 THEN <<SliceFrom(buf, -1)>> ELSE <<>>],
          dispatched |-> TRUE, entry |-> d.entry, zones |-> d.zones]

\* the handler from the test of a complete message on, C being the variables
\* after the length was read
tcpBody(C, at, zones, options) ==
    IF C.expecting > -1 /\ C.received >= 2 + C.expecting
    THEN tcpCarved(C, tcpBuf(C),
                   Dispatch(TakeFirst(tcpBuf(C), C.expecting), "tcp", at, zones, options))
    ELSE [conn |-> C, dispatched |-> FALSE, entry |-> [thrown |-> ""], zones |-> zones]

tcpData(C, chunk, at, zones, options) == tcpBody(tcpLength(C, chunk), at, zones, options)

\* this.emit( "request", request, response ): the listener keeps the response
\* it is given, to end it later
Listener(dispatched, entry) ==
    IF dispatched /\ entry.emitted
    THEN [RespInit EXCEPT !.state = "handling", !.via = entry.via,
                          !.response = DNSResponse(entry.message).msg]
    ELSE resp

\* how many 'data' events a connection of the model gets
MaxChunks == 3

\* a 'data' event of the connection with the next n octets of what the client wrote
OnTcpData(n) ==
    /\ ~log.crashed
    /\ net.chunks < MaxChunks
    /\ n \in 1..Len(net.tcp)
    /\ LET Handled(r) ==
               /\ conn' = r.conn
               /\ log' = [log EXCEPT !.handled = IF r.dispatched THEN Append(@, r.entry) ELSE @,
                                     !.dispatchedNow = r.dispatched,
                                     !.crashed = r.entry.thrown # ""]
               /\ zone' = [zone EXCEPT !.zones = r.zones]
               /\ resp' = Listener(r.dispatched, r.entry)
       IN  Handled(tcpData(conn, TakeFirst(net.tcp, n), net.delivered + n, zone.zones,
                           DefaultOptions))
    /\ net' = [net EXCEPT !.tcp = DropFirst(@, n), !.delivered = @ + n, !.chunks = @ + 1]
    /\ UNCHANGED notRecv

\* a 'message' event of the UDP socket: onUdp( query, info )
OnUdp ==
    /\ ~log.crashed
    /\ net.datagram # <<>>
    /\ LET Handled(d) ==
               /\ log' = [log EXCEPT !.handled = Append(@, d.entry),
                                     !.crashed = d.entry.thrown # ""]
               /\ zone' = [zone EXCEPT !.zones = d.zones]
               /\ resp' = Listener(TRUE, d.entry)
       IN  Handled(Dispatch(net.datagram, "udp", 0, zone.zones, DefaultOptions))
    /\ net' = [net EXCEPT !.datagram = <<>>]
    /\ UNCHANGED <<server, conn, codec>>

(***************************************************************************)
(* Requests for the server: a query with one question and OPT pseudo-RRs   *)
(* (of a version each) in its answer, authority and additional section.    *)
(* The server has the zone "b".                                            *)
(***************************************************************************)
NameB == <<98>>
QuestionC == Label(<<99>>) \o <<0>> \o buf16(1) \o buf16(1)           \* c IN A
QuestionBSOA == Label(NameB) \o <<0>> \o buf16(6) \o buf16(1)         \* b IN SOA
Questions == {QuestionAB, QuestionC, QuestionBSOA}

OPT(version) == RR(<<0>>, 41, 1232, version * 65536, <<>>)
OPTs(versions) == Flatten([i \in 1..Len(versions) |-> OPT(versions[i])])

Request(question, an, au, ad) ==
    buf16(4660) \o <<1, 0>> \o buf16(1) \o buf16(Len(an)) \o buf16(Len(au)) \o buf16(Len(ad))
    \o question \o OPTs(an) \o OPTs(au) \o OPTs(ad)

\* no OPT; one in additional of version 0 and of version 1; two in additional;
\* one in answer; one in authority; one in answer and one in additional
Shapes ==
    { <<<<>>, <<>>, <<>>>>, <<<<>>, <<>>, <<0>>>>, <<<<>>, <<>>, <<1>>>>,
      <<<<>>, <<>>, <<0, 0>>>>, <<<<0>>, <<>>, <<>>>>, <<<<>>, <<0>>, <<>>>>,
      <<<<0>>, <<>>, <<0>>>> }

Requests == {Request(q, s[1], s[2], s[3]) : q \in Questions, s \in Shapes}

\* what a client writes for a query on a TCP connection
Frame(query) == buf16(Len(query)) \o query
Frames(queries) == Flatten([i \in 1..Len(queries) |-> Frame(queries[i])])

ZoneB == zoneRecord(NameB, <<110, 115, DOT>> \o NameB, <<104, 109, AT>> \o NameB,
                    1, 3600, 600, 86400, 300)

\* the queries of the connection of SpecTcp
TcpQueries ==
    { Request(QuestionAB, <<>>, <<>>, <<>>), Request(QuestionC, <<>>, <<>>, <<>>),
      Request(QuestionC, <<>>, <<>>, <<0>>) }

InitTcp ==
    /\ server = SrvInit
    /\ conn = ConnInit
    /\ \E written \in {<<p>> : p \in TcpQueries} \cup {<<p, q>> : p \in TcpQueries, q \in TcpQueries} :
           net = [NetInit EXCEPT !.written = written, !.tcp = Frames(written)]
    /\ log = LogInit
    /\ zone = [ZoneInit EXCEPT !.zones = zoneSet(<<>>, ZoneB)]
    /\ codec = CodecInit
    /\ resp = RespInit

NextTcp == \E n \in 1..Len(net.tcp) : OnTcpData(n)

SpecTcp == InitTcp /\ [][NextTcp]_vars

InitRecv ==
    /\ server = SrvInit
    /\ conn = ConnInit
    /\ \E written \in {<<>>} \cup {<<q>> : q \in Requests}, datagram \in {<<>>} \cup Requests :
           net = [NetInit EXCEPT !.written = written, !.tcp = Frames(written),
                                 !.datagram = datagram]
    /\ log = LogInit
    /\ zone = [ZoneInit EXCEPT !.zones = zoneSet(<<>>, ZoneB)]
    /\ codec = CodecInit
    /\ resp = RespInit

NextRecv ==
    \/ \E n \in {1, Len(net.tcp)} : OnTcpData(n)
    \/ OnUdp

SpecRecv == InitRecv /\ [][NextRecv]_vars

(***************************************************************************)
(* The framing of the TCP connection (SpecTcp).                            *)
(***************************************************************************)
\* the messages of the 'request' events, in the order of the events
Emitted(handled) ==
    LET WasEmitted(e) == e.emitted
        Of(es) == [i \in 1..Len(es) |-> es[i].message]
    IN  Of(SelectSeq(handled, WasEmitted))

\* the OPT pseudo-RRs that a message on the wire carries
OPTsOf(message) == findEDNSRecords(DNSRequest(message).msg)

\* the octets that the connection delivered after the end of the first frame
Surplus ==
    DropFirst(TakeFirst(Frames(net.written), net.delivered), Len(Frame(net.written[1])))

\* C2: two complete length-prefixed queries Q1 then Q2 (here: queries without
\* OPT records) that arrive in a single data chunk give exactly two 'request'
\* events, the first with the octets of Q1 and the second with the octets of Q2.
C2_TwoInOneChunk ==
    (/\ Len(net.written) = 2 /\ net.tcp = <<>> /\ net.chunks = 1
     /\ \A i \in 1..2 : OPTsOf(net.written[i]) = <<>>)
        => Emitted(log.handled) = net.written

\* C3: however one length-prefixed query (without OPT records, or with one of
\* version 0 in its additional section) is split into chunks, there is no
\* 'request' event before the chunk with its last octet, and that chunk gives
\* exactly one event, whose message is the L octets after the prefix.
C3_OneEventOnLastOctet ==
    Len(net.written) = 1 =>
        /\ net.tcp # <<>> => log.handled = <<>>
        /\ net.tcp = <<>> =>
               /\ Emitted(log.handled) = net.written
               /\ \A i \in 1..Len(log.handled) :
                      log.handled[i].at = Len(Frame(net.written[1]))

\* C4: after a request is dispatched from the connection, the handler awaits
\* a length again, the buffer holds exactly the octets received after the end
\* of the dispatched message, and the counter is the number of those octets.
C4_SurplusKept ==
    (log.dispatchedNow /\ Len(log.handled) = 1 /\ ~log.crashed) =>
        /\ conn.expecting = -1
        /\ Flatten(conn.chunks) = Surplus
        /\ conn.received = Len(Surplus)

(***************************************************************************)
(* The EDNS check of both receive paths (SpecRecv).                        *)
(***************************************************************************)
OptMisplaced(records) ==
    Len(records) > 1 \/ \E i \in 1..Len(records) : records[i].section # "additional"

OptVersioned(records) ==
    /\ Len(records) = 1
    /\ records[1].section = "additional"
    /\ records[1].record.edns.version > 0

OptInvalid(records) ==
    OptMisplaced(records) \/ \E i \in 1..Len(records) : records[i].record.edns.version > 0

\* a decoded message has an OPT pseudo-RR that fits in its additional section
HasOPT(r, Fits(_)) ==
    /\ r.ok
    /\ \E i \in 1..Len(r.msg.additional) :
           IsEDNS(r.msg.additional[i]) /\ Fits(r.msg.additional[i].edns)

IsFormErr(octets) ==
    LET Clamped(edns) == edns.udpSize >= 512
    IN  /\ U8(octets, 3) % 16 = RCODES.FORMERR
        /\ HasOPT(DNSMessageParseIn(TRUE, octets), Clamped)

IsBadVers(octets) ==
    LET Extended(edns) == edns.extendedResult = RCODES.BADVERS \div 16
    IN  /\ U8(octets, 3) % 16 = RCODES.BADVERS % 16
        /\ HasOPT(DNSMessageParseIn(TRUE, octets), Extended)

\* C7: a request with more than one OPT record, or with an OPT record outside
\* the additional section, gets a transmitted response with RCODE FORMERR and
\* an OPT record of udpSize >= 512 in its additional section, whether or not
\* a zone of the server covers the question.
C7_FormErrTransmitted ==
    \A i \in 1..Len(log.handled) :
        OptMisplaced(OPTsOf(log.handled[i].message)) =>
            /\ Len(log.handled[i].sent) = 1
            /\ IsFormErr(log.handled[i].sent[1])

\* C8: a request with one OPT record of a version > 0 in the additional
\* section gets a transmitted response with 0 as the low nibble of the RCODE
\* in the header and 1 as the extended RCODE of its OPT record.
C8_BadVersEncoded ==
    \A i \in 1..Len(log.handled) :
        OptVersioned(OPTsOf(log.handled[i].message)) =>
            /\ Len(log.handled[i].sent) = 1
            /\ IsBadVers(log.handled[i].sent[1])

NameExample == <<101, 120, 97, 109, 112, 108, 101>>
NameFooExample == <<102, 111, 111, DOT>> \o NameExample
Address1234 == <<ZERO + 1, DOT, ZERO + 2, DOT, ZERO + 3, DOT, ZERO + 4>>
Address5678 == <<ZERO + 5, DOT, ZERO + 6, DOT, ZERO + 7, DOT, ZERO + 8>>

\* the end of the run of \s, and of \d, that starts at i: the first index
\* from i on that holds another character, or the length and 1
SpaceEnd(str, i) ==
    CHOOSE j \in i..(Len(str) + 1) :
        /\ \A h \in i..(j - 1) : IsSpace(str[h])
        /\ j <= Len(str) => ~IsSpace(str[j])
DigitEnd(str, i) ==
    CHOOSE j \in i..(Len(str) + 1) :
        /\ \A h \in i..(j - 1) : IsDigit(str[h])
        /\ j <= Len(str) => ~IsDigit(str[j])

\* unit.toLowerCase() and the seconds of the unit
toLowerCase(c) == IF c >= 65 /\ c <= 90 THEN c + 32 ELSE c
UnitLetters == {115, 109, 104, 100, 119}
unitSeconds(unit) ==
    CASE unit = 115 -> 1
      [] unit = 109 -> 60
      [] unit = 104 -> 60 * 60
      [] unit = 100 -> 60 * 60 * 24
      [] unit = 119 -> 60 * 60 * 24 * 7

\* /^\s*(\d+)\s*([smhdw])\s*$/.exec( str ), with the flag i (ignoreCase) or
\* without: the amount from a to b, the unit at c
secondsGroups(str, a, b, c, ignoreCase) ==
    IF /\ b > a
       /\ c <= Len(str)
       /\ (IF ignoreCase THEN toLowerCase(str[c]) ELSE str[c]) \in UnitLetters
       /\ SpaceEnd(str, c + 1) = Len(str) + 1
    THEN [match |-> TRUE, amount |-> SubSeq(str, a, b - 1), unit |-> str[c]]
    ELSE [match |-> FALSE]
secondsDigits(str, a, b, ignoreCase) == secondsGroups(str, a, b, SpaceEnd(str, b), ignoreCase)
secondsSpaces(str, a, ignoreCase) == secondsDigits(str, a, DigitEnd(str, a), ignoreCase)
secondsExec(str, ignoreCase) == secondsSpaces(str, SpaceEnd(str, 1), ignoreCase)

\* a value of any type: a string, a number, undefined
StringOf(str) == [k |-> "string", str |-> str]
NumberOf(n) == [k |-> "number", n |-> n]
Undefined == [k |-> "undefined"]

\* seconds( value ); String( value ) of a number or of undefined has no unit
secondsOf(value, match) ==
    IF match.match
    THEN NumberOf(DecimalValue(match.amount) * unitSeconds(toLowerCase(match.unit)))
    ELSE value
secondsExact(value) ==
    IF value.k # "string" THEN value ELSE secondsOf(value, secondsExec(value.str, FALSE))
seconds(value) ==
    IF value.k # "string" THEN value ELSE secondsOf(value, secondsExec(value.str, TRUE))

\* asSeconds( value ) of a number or of undefined
asSeconds(value) == IF value = undefined THEN undefined ELSE seconds(NumberOf(value)).n

\* asSerial( value ) of a number or of undefined: Math.floor( now.getTime() /
\* 1000 ) if ( !value ), Clock being what the clock shows then
Clock == 1700000000
asSerial(value) == IF value \in {undefined, 0} THEN Clock ELSE value

\* zone( "example" ): no name server, no mail address, the serial of the
\* clock, ttl = asSeconds( ttl || 0 )
ZoneExample ==
    zoneRecord(NameExample, NoString, NoString, asSerial(undefined), asSeconds(undefined),
               asSeconds(undefined), asSeconds(undefined), asSeconds(0))

\* zone( "example", "ns.example", "hm@example", 1, 3600, 600, 86400, 600 )
ZoneExampleTimed ==
    zoneRecord(NameExample, <<110, 115, DOT>> \o NameExample, <<104, 109, AT>> \o NameExample,
               asSerial(1), asSeconds(3600), asSeconds(600), asSeconds(86400), asSeconds(600))

ZoneSets == {<<>>, zoneSet(<<>>, ZoneExample), zoneSet(<<>>, ZoneExampleTimed)}

QuestionFooA == Label(<<102, 111, 111>>) \o Label(NameExample) \o <<0>> \o buf16(1) \o buf16(1)
QuestionExampleSOA == Label(NameExample) \o <<0>> \o buf16(6) \o buf16(1)
QuestionExampleMX == Label(NameExample) \o <<0>> \o buf16(15) \o buf16(1)

\* a query with the flag RD as given
Query(rd, questions) ==
    buf16(4660) \o <<rd, 0>> \o buf16(Len(questions)) \o buf16(0) \o buf16(0) \o buf16(0)
    \o Flatten(questions)

Queries ==
    { Query(1, <<QuestionFooA>>), Query(0, <<QuestionFooA>>), Query(1, <<QuestionExampleSOA>>),
      Query(1, <<QuestionExampleMX>>), Query(1, <<QuestionFooA, QuestionExampleMX>>) }

\* how many records a listener of the model pushes
MaxPushed == 1

\* a record the listener makes for the first question, without a TTL or with one
TTLGiven == 50
HandlerRecord(response, ttl) ==
    [simpleAnswer(response.question[1].name, Address5678) EXCEPT !.ttl = ttl]

\* res[sectionName].push( record )
HandlerPush(sectionName, ttl) ==
    /\ resp.state = "handling"
    /\ resp.pushed < MaxPushed
    /\ resp' = [resp EXCEPT !.response[sectionName] = Append(@, HandlerRecord(resp.response, ttl)),
                            !.pushed = @ + 1]
    /\ UNCHANGED <<server, conn, net, log, zone, codec>>

\* res[name] = value
HandlerSet(name, value) ==
    /\ resp.state = "handling"
    /\ resp.response[name] # value
    /\ resp' = [resp EXCEPT !.response[name] = value]
    /\ UNCHANGED <<server, conn, net, log, zone, codec>>

\* the objects a listener of the model describes a response with
HandlerObjects(response) ==
    { [id |-> 7, opcode |-> "query", recursionDesired |-> TRUE],
      [id |-> 7, opcode |-> "query", recursionDesired |-> TRUE,
       question |-> response.question,
       answer |-> <<HandlerRecord(response, TTLGiven)>>] }

HandlerValues(response) ==
    {NoValue, StringValue(Address1234), ArrayValue(<<HandlerRecord(response, undefined)>>)}
    \cup {ObjectValue(body) : body \in HandlerObjects(response)}

\* res.end( value )
HandlerEnd ==
    /\ resp.state = "handling"
    /\ \E value \in HandlerValues(resp.response) :
           LET Ended(out) ==
                   /\ resp' = [resp EXCEPT !.state = "ended", !.value = value, !.outcome = out]
                   /\ zone' = [zone EXCEPT !.zones = out.zones]
           IN  Ended(end(resp.response, value, resp.via, zone.zones, DefaultOptions))
    /\ UNCHANGED <<server, conn, net, log, codec>>

InitEnd ==
    /\ server = SrvInit
    /\ conn = ConnInit
    /\ \E query \in Queries :
           \/ net = [NetInit EXCEPT !.datagram = query]
           \/ net = [NetInit EXCEPT !.written = <<query>>, !.tcp = Frame(query)]
    /\ log = LogInit
    /\ \E zones \in ZoneSets : zone = [ZoneInit EXCEPT !.zones = zones]
    /\ codec = CodecInit
    /\ resp = RespInit

NextEnd ==
    \/ OnUdp
    \/ OnTcpData(Len(net.tcp))
    \/ \E sectionName \in {"answer", "authority", "additional"}, ttl \in {undefined, TTLGiven} :
           HandlerPush(sectionName, ttl)
    \/ \E change \in {<<"recursionAvailable", TRUE>>, <<"authoritative", FALSE>>,
                      <<"type", "request">>} :
           HandlerSet(change[1], change[2])
    \/ HandlerEnd

SpecEnd == InitEnd /\ [][NextEnd]_vars

(***************************************************************************)
(* What end( value ) transmits (SpecEnd).                                  *)
(***************************************************************************)
\* the query of the response that the listener holds
QueryOf == log.handled[Len(log.handled)].message

\* the listener did nothing with the response but end it
Untouched == resp.response = DNSResponse(QueryOf).msg

\* end() transmitted a payload, and the message that it is
Transmitted == resp.state = "ended" /\ Len(resp.outcome.sent) = 1
Payload == DNSMessageParse(resp.outcome.sent[1]).msg

\* the record is an A record of the name with the TTL and the address
IsA(record, name, ttl, address) ==
    /\ record.name = name /\ record.class = "IN" /\ record.type = "A"
    /\ record.ttl = ttl /\ record.data = [k |-> "string", str |-> address]

\* the server of the README: zone( "example" ), and the listener is
\* res.end( "1.2.3.4" ), for a query of foo.example IN A
ReadmeCase ==
    /\ resp.state = "ended"
    /\ resp.value = StringValue(Address1234)
    /\ Untouched
    /\ zone.zones = zoneSet(<<>>, ZoneExample)
    /\ QueryOf \in {Query(0, <<QuestionFooA>>), Query(1, <<QuestionFooA>>)}

\* C11: with zone( "example" ) and the default options, res.end( "1.2.3.4" )
\* for a query of foo.example IN A transmits a response with exactly one
\* answer, foo.example IN A 1.2.3.4 with the TTL 3600, and with AA = 1,
\* RA = 0 and the RD of the query.
C11_ReadmeAnswer ==
    ReadmeCase =>
        /\ Transmitted
        /\ Len(Payload.answer) = 1
        /\ IsA(Payload.answer[1], NameFooExample, DefaultOptions.ttl, Address1234)
        /\ Payload.authoritative /\ ~Payload.recursionAvailable
        /\ Payload.recursionDesired = (QueryOf = Query(1, <<QuestionFooA>>))

\* the response as end() was called with it, and as end() had it to send
Before == resp.response
After == resp.outcome.response

\* the value of end() puts no record of its own into the response
ValueOfNoRecords == resp.value.k \in {"undefined", "string"}

\* the sole question is IN SOA and its owner name is the name of a zone; the
\* listener added no answer
SoaCase ==
    /\ resp.state = "ended"
    /\ ValueOfNoRecords
    /\ Len(Before.question) = 1
    /\ Before.question[1].class = "IN" /\ Before.question[1].type = "SOA"
    /\ Before.question[1].name \in DOMAIN zone.zones
    /\ Len(Before.answer) = 0

\* C12: when the sole question is IN SOA for the name of a registered zone and
\* the listener added no answer, end() puts the SOA record of the zone into
\* the answer section and adds nothing to the authority section.
C12_SoaIntoAnswer ==
    SoaCase =>
        /\ After.answer = <<zone.zones[Before.question[1].name]>>
        /\ Len(After.authority) = Len(Before.authority)

\* such a response went out with the SOA record as its only answer
C12_Witness ==
    /\ SoaCase /\ Untouched /\ Transmitted
    /\ Len(Payload.answer) = 1 /\ Payload.answer[1].type = "SOA"
    /\ Payload.answer[1].data.ttl = 600
    /\ Len(Payload.authority) = 0

\* the zone that covers the first question of the response, if one does
Cover == findZoneForName(zone.zones, Before.question[1].name)
Covered == Cover.ok /\ Cover.soaRecord.found = "own"

\* the first question is IN SOA for the very name of a zone
AsksZoneSOA ==
    /\ Before.question[1].class = "IN" /\ Before.question[1].type = "SOA"
    /\ Before.question[1].name \in DOMAIN zone.zones

\* the sole question is covered by a zone, and the response has no answer and
\* no authority record when the listener calls end()
BareCase ==
    /\ resp.state = "ended"
    /\ resp.value = NoValue
    /\ Len(Before.question) = 1
    /\ Covered
    /\ Len(Before.answer) = 0 /\ Len(Before.authority) = 0

Returned ==
    resp.state = "ended" /\ resp.outcome.thrown = "" /\ resp.outcome.rejected = ""

\* C14: end() transmits a payload if and only if the response it has to send
\* has an answer or an authority record after the loop over the questions;
\* otherwise nothing is sent, and a TCP connection is ended.
C14_TransmitsIffRecords ==
    Returned =>
        /\ Transmitted <=> (Len(After.answer) > 0 \/ Len(After.authority) > 0)
        /\ ~Transmitted => resp.outcome.sent = <<>> /\ (resp.via = "tcp" => resp.outcome.ended)

\* no zone of the server covers a question of the response
Outside ==
    \A i \in 1..Len(Before.question) :
        LET Looked(z) == z.ok /\ z.soaRecord.found = "none"
        IN  Looked(findZoneForName(zone.zones, Before.question[i].name))

\* C15: for a query whose question names no zone covers the server transmits
\* no response, whatever the listener put into the response before it called
\* end(), here without a value or with a string.
C15_SilentOutside == (resp.state = "ended" /\ Outside /\ ValueOfNoRecords) => ~Transmitted

\* the TTL that records without one are to get: that of the SOA record of the
\* covering zone, the option ttl without such a zone, and 1 at least
DefaultTTL == Max(1, IF Covered THEN Cover.soaRecord.record.data.ttl ELSE DefaultOptions.ttl)

\* the records the listener pushed keep their places in the sections
SentWithDefault(sectionName) ==
    \A i \in 1..Len(Before[sectionName]) :
        Before[sectionName][i].ttl = undefined => Payload[sectionName][i].ttl = DefaultTTL

\* C16: every record of the answer, authority and additional section that the
\* listener made without a TTL is serialized with the TTL max( 1, T ), T being
\* the ttl of the SOA record of the covering zone, or options.ttl if no zone
\* covers the question.
C16_DefaultTTL ==
    (Transmitted /\ resp.value.k # "object") =>
        SentWithDefault("answer") /\ SentWithDefault("authority") /\ SentWithDefault("additional")

\* C17 as stated: every response that end() transmits has QR = 1, RA = 0 and
\* AA = 1, whatever the query had and whatever the listener set.
C17_HeaderForcedAll ==
    Transmitted =>
        Payload.type = "response" /\ ~Payload.recursionAvailable /\ Payload.authoritative

\* C17: every response that end() transmits has RA = 0 and AA = 1, whatever
\* the query had and whatever the listener set; it has QR = 1 if the listener
\* left the type of the response as it was, or gave end() an object.
C17_HeaderForced ==
    Transmitted =>
        /\ ~Payload.recursionAvailable /\ Payload.authoritative
        /\ (Before.type = "response" \/ resp.value.k = "object") => Payload.type = "response"

\* a response went out with RA = 0 and AA = 1 after the listener had set
\* recursionAvailable, and authoritative was not set
C17_Witness ==
    /\ Transmitted
    /\ Before.recursionAvailable /\ ~Before.authoritative /\ Before.type = "response"
    /\ ~Payload.recursionAvailable /\ Payload.authoritative /\ Payload.type = "response"

\* the records an object describes for a section
Described(body, sectionName) == Property(body, sectionName, <<>>)

\* the payload is the message that the object describes: its id, its flag RD,
\* as many records in every section, and its answer
IsDescribed(body) ==
    /\ Payload.id = body.id
    /\ Payload.recursionDesired = body.recursionDesired
    /\ \A k \in 1..Len(SECTIONS) : Len(Payload[SECTIONS[k]]) = Len(Described(body, SECTIONS[k]))
    /\ \A i \in 1..Len(Described(body, "answer")) :
           IsA(Payload.answer[i], body.answer[i].name, body.answer[i].ttl,
               body.answer[i].data.str)

\* C18: when end() is given an object, what is transmitted is the message the
\* object describes, and nothing if that has no answer and no authority
\* record, whatever the sections of the original response hold.
C18_ObjectSent ==
    (resp.state = "ended" /\ resp.value.k = "object") =>
        IF Len(Described(resp.value.body, "answer")) > 0
           \/ Len(Described(resp.value.body, "authority")) > 0
        THEN Transmitted /\ IsDescribed(resp.value.body)
        ELSE ~Transmitted

\* the records of a section that are the A record of end( str ) for the name
HasAddress(record, str) == record.data.k = "string" /\ record.data.str = str
FromString(sectionName, name, str) ==
    LET Is(record) ==
            /\ HasAddress(record, str)
            /\ record.name = name /\ record.class = "IN" /\ record.type = "A"
    IN  Len(SelectSeq(After[sectionName], Is))

\* how many records of the response hold the string of end( str ) as data
WithString(str) ==
    LET Is(record) == HasAddress(record, str)
    IN  Len(SelectSeq(After.answer \o After.authority \o After.additional, Is))

\* the response has exactly one question, that is IN A, and no answer
SimpleCase ==
    /\ Len(Before.question) = 1
    /\ Before.question[1].class = "IN" /\ Before.question[1].type = "A"
    /\ Len(Before.answer) = 0

\* what end( str ) added: one A record of the question name as the only
\* answer if `fits`, and no record otherwise
StringAdds(fits) ==
    /\ WithString(resp.value.str) = (IF fits THEN 1 ELSE 0)
    /\ fits => /\ Len(After.answer) = 1
               /\ FromString("answer", Before.question[1].name, resp.value.str) = 1

encodeObject(body) == EncoderMessage(DNSMessageOfObject(body))

NameExampleCom == NameExample \o <<DOT, 99, 111, 109>>

\* the objects to encode: id, type, opcode and recursionDesired, without a
\* question or with one
ObjectQuestions ==
    { <<[edns |-> NoEDNS, name |-> NameExampleCom, class |-> "IN", type |-> "TXT"]>>,
      <<[edns |-> NoEDNS, name |-> NameFooExample, class |-> "IN", type |-> "A"]>> }

ObjectHeads ==
    [id : {7, 123}, type : {"request", "response"}, opcode : {"query", "notify", "update"},
     recursionDesired : BOOLEAN, truncated : BOOLEAN]

Objects == ObjectHeads \cup {[question |-> q] @@ h : q \in ObjectQuestions, h \in ObjectHeads}

\* const octets = encode( object )
CodecEncodeObject ==
    /\ codec.pc = "object"
    /\ codec' = [codec EXCEPT !.pc = "encoded", !.encoded = encodeObject(codec.decoded)]
    /\ UNCHANGED <<server, conn, net, log, zone, resp>>

InitEncode ==
    /\ server = SrvInit
    /\ conn = ConnInit
    /\ net = NetInit
    /\ log = LogInit
    /\ zone = ZoneInit
    /\ \E object \in Objects : codec = [CodecInit EXCEPT !.pc = "object", !.decoded = object]
    /\ resp = RespInit

NextEncode == CodecEncodeObject

SpecEncode == InitEncode /\ [][NextEncode]_vars

\* the object of the README and the octets the README shows for it
ReadmeObject ==
    [id |-> 123, type |-> "request", opcode |-> "query", recursionDesired |-> TRUE,
     truncated |-> FALSE,
     question |-> <<[edns |-> NoEDNS, name |-> NameExampleCom, class |-> "IN", type |-> "TXT"]>>]

ReadmeOctets ==
    <<0, 123, 1, 0, 0, 1, 0, 0, 0, 0, 0, 0,
      7, 101, 120, 97, 109, 112, 108, 101, 3, 99, 111, 109, 0, 0, 16, 0, 1>>

\* C20: encode() of the object { id 123, request, opcode query,
\* recursionDesired, question [ example.com IN TXT ] } yields the 29 octets of
\* the README: the question is serialized and QDCOUNT is 1.
C20_ReadmeOctets ==
    (codec.pc = "encoded" /\ codec.decoded = ReadmeObject) =>
        codec.encoded.ok /\ codec.encoded.octets = ReadmeOctets

(***************************************************************************)
(* Encoder.encodeName on its own (SpecName): an encoder writes names one   *)
(* after the other, as Encoder.record does for owner names and for names   *)
(* in the data of records.  codec.written holds what every call was given  *)
(* and what it made of it.                                                 *)
(***************************************************************************)
\* how many names an encoder of the model writes
MaxNames == 3

\* where the first name is written: right after a header, and around the last
\* position that a pointer can name
StartPositions == {12, MaxPointer - 3, MaxPointer + 7}

WrittenNames == {NameC, NameBC, NameABC, NameBC \o <<DOT>>, <<97, DOT, 99>>}

\* this.encodeName( fqdn, 0, { compress } ), then `gap` octets that are no name
EncodeNameStep(fqdn, compress, gap) ==
    /\ codec.pc = "names"
    /\ Len(codec.written) < MaxNames
    /\ LET Made(name) ==
               /\ name.ok
               /\ codec' = [codec EXCEPT
                      !.E = [@ EXCEPT !.domains = name.domains,
                                      !.position = @ + Len(name.octets) + gap],
                      !.written = Append(@, [fqdn |-> fqdn, compress |-> compress,
                                             at |-> codec.E.position,
                                             domains |-> codec.E.domains,
                                             octets |-> name.octets])]
       IN  Made(encodeName(codec.E, fqdn, 0, compress))
    /\ UNCHANGED <<server, conn, net, log, zone, resp>>

InitName ==
    /\ server = SrvInit
    /\ conn = ConnInit
    /\ net = NetInit
    /\ log = LogInit
    /\ zone = ZoneInit
    /\ \E position \in StartPositions :
           codec = [pc |-> "names", E |-> [NewEncoder EXCEPT !.position = position],
                    written |-> <<>>]
    /\ resp = RespInit

NextName ==
    \E fqdn \in WrittenNames, compress \in BOOLEAN : EncodeNameStep(fqdn, compress, 4)

SpecName == InitName /\ [][NextName]_vars

\* the labels of a name of well-formed labels, each as its length and octets
RECURSIVE Literal(_)
Literal(labels) ==
    IF labels = <<>> THEN <<>>
    ELSE <<Len(labels[1])>> \o labels[1] \o Literal(Tail(labels))

PointerTo(offset) == <<192 + (offset \div 256), offset % 256>>

\* the suffixes of the name that a pointer can stand for: recorded before at a
\* position of at most 0x3FFF
Known(w) ==
    {z \in DOMAIN w.domains :
        /\ SuffixAtLabel(z, StripTrailingDot(w.fqdn))
        /\ w.domains[z] <= MaxPointer}

Longest(zs) == CHOOSE z \in zs : \A y \in zs : Len(y) <= Len(z)

\* the name without the suffix z and the dot before it
Preceding(fqdn, z) ==
    IF Len(z) = Len(fqdn) THEN <<>> ELSE SubSeq(fqdn, 1, Len(fqdn) - Len(z) - 1)

\* what the claim has the encoder write for the call w
Compressed(w) ==
    IF Known(w) = {} THEN Literal(Split(StripTrailingDot(w.fqdn), DOT)) \o <<0>>
    ELSE LET before == Preceding(StripTrailingDot(w.fqdn), Longest(Known(w)))
         IN  (IF before = <<>> THEN <<>> ELSE Literal(Split(before, DOT)))
             \o PointerTo(w.domains[Longest(Known(w))])

\* the calls before call i that wrote the same name in full, at a position a
\* pointer can name
InFull(i) ==
    {h \in 1..(i - 1) :
        /\ StripTrailingDot(codec.written[h].fqdn) = StripTrailingDot(codec.written[i].fqdn)
        /\ codec.written[h].octets
               = Literal(Split(StripTrailingDot(codec.written[h].fqdn), DOT)) \o <<0>>
        /\ codec.written[h].at <= MaxPointer}

\* the first of some calls
First(hs) == CHOOSE h \in hs : \A g \in hs : h <= g

\* every call before call i compressed, as for the owner names of records
AllCompressed(i) == \A h \in 1..(i - 1) : codec.written[h].compress

MaxOctets == 4

\* octets of the messages: a closing label, headers of short labels that are
\* pointer targets as well, a label type that does not exist, a pointer
WrittenOctets == {0, 1, 2, 3, 64, 192}

WriteOctet(octet) ==
    /\ codec.pc = "pointer"
    /\ Len(codec.msg) < MaxOctets
    /\ codec' = [codec EXCEPT !.msg = Append(@, octet), !.offset = 0, !.name = NotYet]
    /\ UNCHANGED <<server, conn, net, log, zone, resp>>

CompileNameAt(offset) ==
    /\ codec.pc = "pointer"
    /\ codec.name = NotYet
    /\ codec.msg # <<>>
    /\ codec' = [codec EXCEPT !.offset = offset,
                              !.name = compileName(codec.msg, codec.msg, offset)]
    /\ UNCHANGED <<server, conn, net, log, zone, resp>>

InitPointer ==
    /\ server = SrvInit
    /\ conn = ConnInit
    /\ net = NetInit
    /\ log = LogInit
    /\ zone = ZoneInit
    /\ codec = [pc |-> "pointer", msg |-> <<>>, offset |-> 0, name |-> NotYet]
    /\ resp = RespInit

NextPointer ==
    \/ \E octet \in WrittenOctets : WriteOctet(octet)
    \/ \E offset \in 0 .. MaxOctets : CompileNameAt(offset)

SpecPointer == InitPointer /\ [][NextPointer]_vars

\* the pointer targets that following the name at cursor leads to, one after
\* the other, as RFC 1035 4.1.4 reads the octets, up to a number of jumps
RECURSIVE Targets(_, _, _, _)
Targets(msg, cursor, jumps, reached) ==
    IF jumps = 0 \/ cursor < 0 \/ cursor >= Len(msg) THEN reached
    ELSE IF msg[cursor + 1] = 0 THEN reached
    ELSE IF msg[cursor + 1] < 64 THEN Targets(msg, cursor + 1 + msg[cursor + 1], jumps, reached)
    ELSE IF msg[cursor + 1] < 192 \/ cursor + 1 >= Len(msg) THEN reached
    ELSE IF (msg[cursor + 1] - 192) * 256 + msg[cursor + 2] >= Len(msg) THEN reached
    ELSE Targets(msg, (msg[cursor + 1] - 192) * 256 + msg[cursor + 2], jumps - 1,
                 Append(reached, (msg[cursor + 1] - 192) * 256 + msg[cursor + 2]))

\* following the pointers of the name comes to a target a second time
Twice(reached) == \E i, j \in DOMAIN reached : i < j /\ reached[i] = reached[j]
Revisits(msg, offset) == Twice(Targets(msg, offset, Len(msg) + 1, <<>>))

PointerCycle == Err("circular pointer references discovered")

\* C22: a name whose pointers come to a target a second time is not compiled
\* but fails with the error of circular pointers, and no other name fails
\* with that error.
C22_PointerCycle ==
    (codec.pc = "pointer" /\ codec.name # NotYet) =>
        /\ Revisits(codec.msg, codec.offset) => ~codec.name.ok
        /\ Revisits(codec.msg, codec.offset) <=> codec.name = PointerCycle

\* two pointers naming each other's offset
C22_Witness ==
    /\ codec.pc = "pointer"
    /\ codec.msg = <<192, 2, 192, 0>>
    /\ codec.offset = 0
    /\ codec.name = PointerCycle

(***************************************************************************)
(* SpecOpcode: a query with any opcode in its header is decoded and the    *)
(* decoded message encoded; an object with any opcode is encoded.          *)
(***************************************************************************)
MaxOpcode == 15
WireOpcodes == 0 .. MaxOpcode
WireIds == {7, 4660}

\* a message with the question "a.b IN A": QR, opcode and RD in octet 2
OpcodePacket(id, qr, opcode, rd) ==
    buf16(id) \o <<qr * 128 + opcode * 8 + rd, 0>> \o buf16(1) \o buf16(0) \o buf16(0)
    \o buf16(0) \o QuestionAB

OpcodePackets ==
    {OpcodePacket(id, qr, opcode, rd) :
        id \in WireIds, qr \in {0, 1}, opcode \in WireOpcodes, rd \in {0, 1}}

\* opcodes of objects: the six names the class documents, null, and others
ObjectOpcodes ==
    {"query", "iquery", "status", "unassigned", "notify", "update", null, "QUERY", "", "3"}

OpcodeObjects ==
    [id : WireIds, type : {"request", "response"}, opcode : ObjectOpcodes]

InitOpcode ==
    /\ server = SrvInit
    /\ conn = ConnInit
    /\ net = NetInit
    /\ log = LogInit
    /\ zone = ZoneInit
    /\ \/ \E packet \in OpcodePackets :
             codec = [CodecInit EXCEPT !.pc = "packet", !.packet = packet]
       \/ \E object \in OpcodeObjects :
             codec = [CodecInit EXCEPT !.pc = "object", !.decoded = object]
    /\ resp = RespInit

NextOpcode ==
    \/ CodecDecode
    \/ CodecEncode
    \/ CodecEncodeObject

SpecOpcode == InitOpcode /\ [][NextOpcode]_vars

Enumerated == {"query", "iquery", "status", "notify", "update"}
EnumeratedNumbers == {0, 1, 2, 4, 5}
WireOpcode(packet) == (packet[3] \div 8) % 16
UnknownOpcode == Err("Unknown opcode")
FromPacket == codec.packet # <<>>
FromObject == codec.packet = <<>>

\* C23: a packet with an opcode other than 0, 1, 2, 4, 5 is decoded without
\* error to a message with the opcode null; encode() of a message with the
\* opcode null or any other opcode than query, iquery, status, notify, update
\* fails with "Unknown opcode" and gives no octets.
C23_UnknownOpcode ==
    /\ (codec.pc \in {"decoded", "encoded"} /\ FromPacket
        /\ WireOpcode(codec.packet) \notin EnumeratedNumbers)
          => codec.decoded.ok /\ codec.decoded.msg.opcode = null
    /\ (codec.pc = "encoded" /\ FromPacket /\ codec.decoded.msg.opcode \notin Enumerated)
          => codec.encoded = UnknownOpcode
    /\ (codec.pc = "encoded" /\ FromObject /\ codec.decoded.opcode \notin Enumerated)
          => codec.encoded = UnknownOpcode

\* opcode 3 met in a packet, decoded to null and refused by encode()
C23_Witness ==
    /\ codec.pc = "encoded"
    /\ FromPacket
    /\ WireOpcode(codec.packet) = 3
    /\ codec.decoded.ok
    /\ codec.decoded.msg.opcode = null
    /\ codec.encoded = UnknownOpcode

\* a record of class IN and type HINFO, a type with a label and without a
\* case in DNSRecord.parse, alone in the answer section of a packet
HinfoRecord == RR(Ptr(12), 13, 1, 60, <<1, 120, 1, 121>>)
HinfoAt == CHOOSE i \in 1..Len(RecordPool) : RecordPool[i] = HinfoRecord
HinfoPackets == {Packet(h, HinfoAt, stride, 1, "answer") : h \in 1..Len(HeaderPool), stride \in Strides}

\* C24: a packet whose answer is a record of a known class and of a type
\* without a payload codec (IN HINFO) is decoded without error, the record
\* keeping its RDATA as octets.
C24_OpaqueRecord ==
    (codec.pc = "decoded" /\ codec.packet \in HinfoPackets) =>
        /\ codec.decoded.ok
        /\ Len(codec.decoded.msg.answer) = 1
        /\ codec.decoded.msg.answer[1].type = "HINFO"
        /\ codec.decoded.msg.answer[1].data = [k |-> "buffer", buf |-> <<1, 120, 1, 121>>]

(***************************************************************************)
(* SpecSoa: a decoded query is given an SOA record as its answer, the      *)
(* message is encoded and the octets decoded again.                        *)
(***************************************************************************)
\* local parts hm, x, j.d and domains b, a.b, example of the mail address
SoaLocals == {<<104, 109>>, <<120>>, <<106, DOT, 100>>}
SoaDomains == {<<98>>, <<97, DOT, 98>>, NameExample}
SoaNameServers == {<<110, 115, DOT, 98>>, <<97, DOT, 98>>}
SoaSerials == {7, Clock}

SoaQuery == decode(OpcodePacket(7, 1, 0, 1)).msg

SoaMessages ==
    {[SoaQuery EXCEPT !.id = id,
                      !.answer = <<[zoneRecord(<<98>>, mname, local \o <<AT>> \o domain,
                                               serial, 3600, 600, 86400, 300)
                                    EXCEPT !.ttl = 60]>>] :
        id \in WireIds, mname \in SoaNameServers, local \in SoaLocals, domain \in SoaDomains,
        serial \in SoaSerials}

InitSoa ==
    /\ server = SrvInit
    /\ conn = ConnInit
    /\ net = NetInit
    /\ log = LogInit
    /\ zone = ZoneInit
    /\ \E message \in SoaMessages :
          codec = [CodecInit EXCEPT !.pc = "decoded", !.decoded = [ok |-> TRUE, msg |-> message]]
    /\ resp = RespInit

NextSoa ==
    \/ CodecEncode
    \/ CodecRedecode

SpecSoa == InitSoa /\ [][NextSoa]_vars

\* C25: an SOA record whose rname is local@domain is encoded, and decoding the
\* octets gives a record with the same rname, also with a "." in the local part.
C25_RnameRoundTrip ==
    /\ codec.pc = "encoded" => codec.encoded.ok
    /\ codec.pc = "redecoded" =>
          /\ codec.redecoded.ok
          /\ Len(codec.redecoded.msg.answer) = 1
          /\ codec.redecoded.msg.answer[1].data.rname = codec.decoded.msg.answer[1].data.rname

(***************************************************************************)
(* SpecRcode: a response with a response code and an OPT pseudo-RR in its  *)
(* additional section is encoded and the octets decoded again.             *)
(***************************************************************************)
ResponseCodes == {0, 3, 15, 16, 23, 255, 256, 4095}
UdpSizes == {512, 4096}

\* the OPT pseudo-RR as addEDNSReply makes it, with an extended result
OptRecord(udpSize, extendedResult, flagDO) ==
    [edns |-> [present |-> TRUE, udpSize |-> udpSize, extendedResult |-> extendedResult,
               version |-> 0, flagDO |-> flagDO, flags |-> 0, options |-> <<>>],
     name |-> <<>>, class |-> "IN", type |-> "OPT"]

\* ( responseCode & 0xff0 ) >> 4, what end() sets as the extended result
UpperBits(responseCode) == (responseCode % 4096) \div 16

RcodeMessages ==
    {[SoaQuery EXCEPT !.id = id, !.responseCode = r,
                      !.additional = <<OptRecord(udpSize, IF set THEN UpperBits(r) ELSE 0, flagDO)>>] :
        id \in WireIds, r \in ResponseCodes, udpSize \in UdpSizes, flagDO \in BOOLEAN,
        set \in BOOLEAN}

InitRcode ==
    /\ server = SrvInit
    /\ conn = ConnInit
    /\ net = NetInit
    /\ log = LogInit
    /\ zone = ZoneInit
    /\ \E message \in RcodeMessages :
          codec = [CodecInit EXCEPT !.pc = "decoded", !.decoded = [ok |-> TRUE, msg |-> message]]
    /\ resp = RespInit

NextRcode ==
    \/ CodecEncode
    \/ CodecRedecode

SpecRcode == InitRcode /\ [][NextRcode]_vars

ExtendedCode(msg) == msg.responseCode \in 16..4095
\* the octet of the extended RCODE: the one after the root name, the type
\* and the class of the OPT pseudo-RR, which follows the question
ExtendedOctet(octets) == octets[12 + Len(QuestionAB) + 1 + 2 + 2 + 1]

\* C26: a response with a response code r of 16..4095 and an OPT pseudo-RR is
\* encoded with r mod 16 in the low half of octet 3 and r div 16 in the octet of
\* the extended RCODE, and decoding the octets gives the response code r.
C26_ExtendedRcode ==
    /\ (codec.pc = "encoded" /\ ExtendedCode(codec.decoded.msg)) =>
          /\ codec.encoded.ok
          /\ codec.encoded.octets[4] % 16 = codec.decoded.msg.responseCode % 16
          /\ ExtendedOctet(codec.encoded.octets) = codec.decoded.msg.responseCode \div 16
    /\ (codec.pc = "redecoded" /\ ExtendedCode(codec.decoded.msg)) =>
          /\ codec.redecoded.ok
          /\ codec.redecoded.msg.responseCode = codec.decoded.msg.responseCode

(***************************************************************************)
(* SpecTxt: a decoded query is given a TXT record as its answer, with one  *)
(* string or a list of strings as its data; the message is encoded and     *)
(* the octets decoded again.                                               *)
(***************************************************************************)
MaxTexts == 2
MaxText == 255
LongText == [i \in 1..(MaxText + 1) |-> 120]

\* "", "x", "yz", "h i", "é" and a string of 256 characters
Texts == {<<>>, <<120>>, <<121, 122>>, <<104, 32, 105>>, <<233>>, LongText}

RECURSIVE TextLists(_)
TextLists(n) ==
    IF n = 0 THEN {<<>>}
    ELSE TextLists(n - 1) \cup {Append(l, t) : l \in {m \in TextLists(n - 1) : Len(m) = n - 1}, t \in Texts}

TxtValues ==
    {[k |-> "string", str |-> t] : t \in Texts}
        \cup {[k |-> "array", list |-> l] : l \in TextLists(MaxTexts)}

TxtMessages ==
    {[SoaQuery EXCEPT !.id = id,
                      !.answer = <<[edns |-> NoEDNS, name |-> <<97, DOT, 98>>, class |-> "IN",
                                    type |-> "TXT", ttl |-> 60, data |-> value]>>] :
        id \in WireIds, value \in TxtValues}

InitTxt ==
    /\ server = SrvInit
    /\ conn = ConnInit
    /\ net = NetInit
    /\ log = LogInit
    /\ zone = ZoneInit
    /\ \E message \in TxtMessages :
          codec = [CodecInit EXCEPT !.pc = "decoded", !.decoded = [ok |-> TRUE, msg |-> message]]
    /\ resp = RespInit

NextTxt ==
    \/ CodecEncode
    \/ CodecRedecode

SpecTxt == InitTxt /\ [][NextTxt]_vars

TxtGiven == codec.decoded.msg.answer[1].data
TxtTexts == IF TxtGiven.k = "array" THEN TxtGiven.list ELSE <<TxtGiven.str>>
\* every string is of ASCII characters and of 255 characters at most
PlainText(t) == Len(t) <= MaxText /\ \A i \in 1..Len(t) : t[i] < 128
PlainTexts == \A i \in 1..Len(TxtTexts) : PlainText(TxtTexts[i])
\* the RDATA of the answer: after the header, the question, the pointer to
\* the name and the 10 octets of type, class, ttl and length
TxtWritten == SubSeq(codec.encoded.octets, 12 + Len(QuestionAB) + 2 + 10 + 1, Len(codec.encoded.octets))
TxtAgain == codec.redecoded.msg.answer[1].data

TxtRoundTrip(plain) ==
    /\ (codec.pc = "redecoded" /\ plain /\ TxtGiven.k = "array" /\ Len(TxtGiven.list) >= 2) =>
          /\ codec.redecoded.ok
          /\ TxtAgain = TxtGiven
    /\ (codec.pc = "redecoded" /\ plain /\ Len(TxtTexts) = 1) =>
          /\ codec.redecoded.ok
          /\ TxtAgain = [k |-> "string", str |-> TxtTexts[1]]
    /\ (codec.pc = "encoded" /\ plain /\ TxtGiven.k = "string") =>
          /\ codec.encoded.ok
          /\ TxtWritten = <<Len(TxtGiven.str)>> \o TxtGiven.str

\* C27 as stated: a TXT record of n >= 2 strings is decoded, after encoding,
\* to the same n strings; one of a single segment is decoded to a bare
\* string; a bare string is encoded as one segment, its length and its
\* characters.
C27_TextsAll == TxtRoundTrip(TRUE)

\* C27 as amended: the same, for strings of ASCII characters of 255
\* characters at most.
C27_Texts == TxtRoundTrip(PlainTexts)

C27_Witness ==
    /\ codec.pc = "redecoded"
    /\ TxtGiven = [k |-> "array", list |-> << <<120>>, <<104, 32, 105>> >>]
    /\ TxtWritten = <<1, 120, 3, 104, 32, 105>>
    /\ TxtAgain = TxtGiven

(***************************************************************************)
(* SpecSeconds: seconds() is called with a string put together from        *)
(* spaces, an amount, spaces, a unit and what follows, or with a number,   *)
(* or with undefined.                                                      *)
(***************************************************************************)
MaxAmount == 30
Spaces == {<<>>, <<32>>, <<9, 32>>}
\* "2", "10", "30", "007", and amounts that are no run of digits
Amounts == {Decimal(2), Decimal(10), Decimal(MaxAmount), <<ZERO, ZERO, ZERO + 7>>,
            <<>>, <<ZERO + 2, DOT, ZERO + 5>>, <<45, ZERO + 2>>, <<ZERO + 2, 32, ZERO + 3>>}
\* s m h d w, S M H D W, and x, y, "ms", nothing
Units == {<<115>>, <<109>>, <<104>>, <<100>>, <<119>>, <<83>>, <<77>>, <<72>>, <<68>>, <<87>>,
          <<120>>, <<121>>, <<109, 115>>, <<>>}
Trails == {<<>>, <<32>>, <<32, 120>>}

SecondsStrings ==
    [lead : Spaces, amount : Amounts, mid : Spaces, unit : Units, trail : Trails]
SecondsNumbers == {0, 1, 600, 3600, MaxAmount}

SecondsString(parts) == parts.lead \o parts.amount \o parts.mid \o parts.unit \o parts.trail

\* const result = seconds( value )
Seconds ==
    /\ codec.pc = "value"
    /\ codec' = [codec EXCEPT !.pc = "seconds", !.result = seconds(codec.value)]
    /\ UNCHANGED <<server, conn, net, log, zone, resp>>

InitSeconds ==
    /\ server = SrvInit
    /\ conn = ConnInit
    /\ net = NetInit
    /\ log = LogInit
    /\ zone = ZoneInit
    /\ \/ \E parts \in SecondsStrings :
             codec = [pc |-> "value", parts |-> parts, value |-> StringOf(SecondsString(parts)),
                      result |-> Undefined]
       \/ \E n \in SecondsNumbers :
             codec = [pc |-> "value", parts |-> <<>>, value |-> NumberOf(n), result |-> Undefined]
       \/ codec = [pc |-> "value", parts |-> <<>>, value |-> Undefined, result |-> Undefined]
    /\ resp = RespInit

NextSeconds == Seconds

SpecSeconds == InitSeconds /\ [][NextSeconds]_vars

\* the strings of the pattern ^\s*\d+\s*[smhdw]\s*$, by the parts they are
\* made of, with the units as written or in either case
AllDigits(str) == str # <<>> /\ \A i \in 1..Len(str) : IsDigit(str[i])
LowerUnits == {<<115>>, <<109>>, <<104>>, <<100>>, <<119>>}
UpperUnits == {<<83>>, <<77>>, <<72>>, <<68>>, <<87>>}
Matches(parts, units) ==
    /\ AllDigits(parts.amount)
    /\ parts.unit \in units
    /\ parts.trail \in {<<>>, <<32>>}
\* the seconds of the units s, m, h, d, w
Multiplier(unit) ==
    IF unit \in {<<115>>, <<83>>} THEN 1
    ELSE IF unit \in {<<109>>, <<77>>} THEN 60
    ELSE IF unit \in {<<104>>, <<72>>} THEN 3600
    ELSE IF unit \in {<<100>>, <<68>>} THEN 86400
    ELSE 604800
Converted(units) ==
    (codec.pc = "seconds") =>
        IF codec.value.k = "string" /\ Matches(codec.parts, units)
        THEN codec.result = NumberOf(DecimalValue(codec.parts.amount) * Multiplier(codec.parts.unit))
        ELSE codec.result = codec.value

\* C28 as stated: seconds( v ) is n times the seconds of the unit for a string
\* v of the pattern ^\s*\d+\s*[smhdw]\s*$, and v itself for every other value.
C28_SecondsLower == Converted(LowerUnits)

\* C28 as amended: the same with the unit in either case, s m h d w or
\* S M H D W.
C28_Seconds == Converted(LowerUnits \cup UpperUnits)

\* "30m" is 1800
C28_Witness ==
    /\ codec.pc = "seconds"
    /\ codec.value = StringOf(<<ZERO + 3, ZERO, 109>>)
    /\ codec.result = NumberOf(1800)

(***************************************************************************)
(* SpecBad: messages that cannot be decoded arrive among queries, as       *)
(* datagrams and on a TCP connection.                                      *)
(***************************************************************************)
MaxDatagrams == 2

\* a header cut short, a question that is missing, a label of a type that
\* does not exist, a pointer to itself, a question of class 2
BadMessages ==
    { <<18, 52, 1>>,
      buf16(4660) \o <<1, 0>> \o buf16(1) \o buf16(0) \o buf16(0) \o buf16(0),
      buf16(4660) \o <<1, 0>> \o buf16(1) \o buf16(0) \o buf16(0) \o buf16(0)
          \o <<64, 97, 0>> \o buf16(1) \o buf16(1),
      buf16(4660) \o <<1, 0>> \o buf16(1) \o buf16(0) \o buf16(0) \o buf16(0)
          \o Ptr(12) \o buf16(1) \o buf16(1),
      buf16(4660) \o <<1, 0>> \o buf16(1) \o buf16(0) \o buf16(0) \o buf16(0)
          \o Label(<<97>>) \o <<0>> \o buf16(1) \o buf16(2) }
GoodMessages == {Request(QuestionAB, <<>>, <<>>, <<>>), Request(QuestionC, <<>>, <<>>, <<>>)}
Arriving == BadMessages \cup GoodMessages

\* the next datagram arrives at the socket of a process that still runs
UdpArrives(datagram) ==
    /\ ~log.crashed
    /\ net.datagram = <<>>
    /\ Cardinality({i \in 1..Len(log.handled) : log.handled[i].via = "udp"}) < MaxDatagrams
    /\ net' = [net EXCEPT !.datagram = datagram]
    /\ UNCHANGED <<server, conn, log, zone, codec, resp>>

InitBad ==
    /\ server = SrvInit
    /\ conn = ConnInit
    /\ \E written \in {<<>>} \cup {<<p, q>> : p \in Arriving, q \in GoodMessages} :
           net = [NetInit EXCEPT !.written = written, !.tcp = Frames(written)]
    /\ log = LogInit
    /\ zone = [ZoneInit EXCEPT !.zones = zoneSet(<<>>, ZoneB)]
    /\ codec = CodecInit
    /\ resp = RespInit

NextBad ==
    \/ \E n \in {Len(net.tcp)} \cup {Len(Frame(net.written[i])) : i \in 1..Len(net.written)} :
          OnTcpData(n)
    \/ OnUdp
    \/ \E datagram \in Arriving : UdpArrives(datagram)

SpecBad == InitBad /\ [][NextBad]_vars

Undecodable(message) == ~DNSRequest(message).ok

\* C29: a datagram or a TCP message that cannot be decoded gives no 'request'
\* event and no exception that leaves the listener of the socket (the failure
\* goes to the 'error' event of the server), and the server goes on with the
\* messages that follow.
C29_UndecodableReported ==
    \A i \in 1..Len(log.handled) :
        Undecodable(log.handled[i].message) =>
            /\ ~log.handled[i].emitted
            /\ log.handled[i].thrown = ""
            /\ ~log.crashed

(***************************************************************************)
(* SpecClose: a listening server gets a query as a datagram or on a TCP    *)
(* connection; close() is called, and the sockets close, before or after   *)
(* the listener of the 'request' event ends its response.                  *)
(***************************************************************************)
\* the server once both sockets have reported 'listening' and the ticks of
\* listen() have run
Bound == [SrvInit EXCEPT !.sock = [s \in Sockets |-> "binding"],
                         !.promise = [s \in Sockets |-> "pending"]]
BoundUdp == ListenResolveHandler(CtorListeningHandler([Bound EXCEPT !.sock.udp = "listening"], "udp"), "udp")
BoundBoth == ListenResolveHandler(CtorListeningHandler([BoundUdp EXCEPT !.sock.tcp = "listening"], "tcp"), "tcp")
Listening == [BoundBoth EXCEPT !.thenState = "done", !.emitted.listening = @ + 1]

NotRunning == "ERR_SOCKET_DGRAM_NOT_RUNNING"

\* this.udp.send( response, … ) of socket.send: a socket that was closed
\* throws, which rejects the promise of socket.send; connection.end( … ) of an
\* established connection is not touched by tcp.close()
sendOn(out, via, S) ==
    IF via = "udp" /\ out.sent # <<>> /\ S.sock.udp # "listening"
    THEN [out EXCEPT !.sent = <<>>, !.rejected = NotRunning]
    ELSE out

\* a datagram is delivered to a socket that is open
ClosableOnUdp == server.sock.udp = "listening" /\ OnUdp

\* res.end( value ) of the listener, whatever has become of the server
ClosableHandlerEnd ==
    /\ resp.state = "handling"
    /\ \E value \in {NoValue, StringValue(Address1234)} :
           LET Ended(out) ==
                   /\ resp' = [resp EXCEPT !.state = "ended", !.value = value, !.outcome = out]
                   /\ zone' = [zone EXCEPT !.zones = out.zones]
           IN  Ended(sendOn(end(resp.response, value, resp.via, zone.zones, DefaultOptions),
                            resp.via, server))
    /\ UNCHANGED <<server, conn, net, log, codec>>

\* the 'close' event of the TCP server, once its connection has ended
ClosableTcpClosed ==
    /\ net.written = <<>> \/ (resp.state = "ended" /\ resp.outcome.ended)
    /\ TcpClosed

InitClose ==
    /\ server = Listening
    /\ conn = ConnInit
    /\ \E query \in Queries :
           \/ net = [NetInit EXCEPT !.datagram = query]
           \/ net = [NetInit EXCEPT !.written = <<query>>, !.tcp = Frame(query)]
    /\ log = LogInit
    /\ \E zones \in ZoneSets : zone = [ZoneInit EXCEPT !.zones = zones]
    /\ codec = CodecInit
    /\ resp = RespInit

NextClose ==
    \/ ClosableOnUdp
    \/ OnTcpData(Len(net.tcp))
    \/ \E ttl \in {undefined, TTLGiven} : HandlerPush("answer", ttl)
    \/ ClosableHandlerEnd
    \/ Close
    \/ UdpClosed
    \/ ClosableTcpClosed

SpecClose == InitClose /\ [][NextClose]_vars

\* the listener ends its response after close() was called, and the response
\* is handed to the socket
EndsAfterClose ==
    /\ resp.state = "handling"
    /\ resp'.state = "ended"
    /\ server.closing
    /\ resp'.outcome.thrown = ""
    /\ resp'.outcome.sent # <<>> \/ resp'.outcome.rejected = NotRunning

\* C30: when close() has been called while the listener of a request has not
\* ended its response, the listener can still end it, and the transmission of
\* the response fails then and gives an 'error' event of the server.
C30_FailsAfterClose ==
    [][EndsAfterClose =>
          /\ resp'.outcome.sent = <<>>
          /\ resp'.outcome.rejected # ""
          /\ server'.emitted.error > server.emitted.error]_vars

(***************************************************************************)
(* SpecSend: socket.send( response ) of a datagram's socket and of a TCP   *)
(* connection's, with null or with a buffer of some length; the state      *)
(* keeps the length of the buffer and the octet it is filled with.         *)
(***************************************************************************)
MaxUdp == 512
ResponseLengths ==
    {12, 100, MaxUdp - 1, MaxUdp, MaxUdp + 1, MaxUdp + 2, 600, 4096,
     MaxUInt16 - 1, MaxUInt16, MaxUInt16 + 1, MaxUInt16 + 2, 70000}
ResponseFills == {0, 97, 255}
ResponseOf(length, fill) == [i \in 1..length |-> fill]

\* what socket.send left, with the lengths of what it transmitted
Lengths(sent) == [i \in 1..Len(sent) |-> Len(sent[i])]
SendSummary(out, octets) ==
    [rejected |-> out.rejected, sent |-> Lengths(out.sent), ended |-> out.ended,
     whole |-> out.sent = <<octets>>]
NothingSent == [rejected |-> "", sent |-> <<>>, ended |-> FALSE, whole |-> FALSE]

\* socket.send( response ) with a buffer of codec.length octets
Send ==
    /\ codec.pc = "response"
    /\ codec' = [codec EXCEPT
                    !.pc = "sent",
                    !.outcome = SendSummary(SocketSend(codec.via, codec.some,
                                                       ResponseOf(codec.length, codec.fill)),
                                            ResponseOf(codec.length, codec.fill))]
    /\ UNCHANGED <<server, conn, net, log, zone, resp>>

InitSend ==
    /\ server = SrvInit
    /\ conn = ConnInit
    /\ net = NetInit
    /\ log = LogInit
    /\ zone = ZoneInit
    /\ \E via \in Sockets :
          \/ codec = [pc |-> "response", via |-> via, some |-> FALSE, length |-> 0,
                      fill |-> 0, outcome |-> NothingSent]
          \/ \E length \in ResponseLengths, fill \in ResponseFills :
                codec = [pc |-> "response", via |-> via, some |-> TRUE, length |-> length,
                         fill |-> fill, outcome |-> NothingSent]
    /\ resp = RespInit

NextSend == Send

SpecSend == InitSend /\ [][NextSend]_vars

TooLong == \/ codec.via = "udp" /\ codec.length > 512
           \/ codec.via = "tcp" /\ codec.length > 65535

\* C31: socket.send of a response of more than 512 octets over UDP, or of
\* more than 65535 octets over TCP, is rejected with an error and nothing is
\* transmitted: no datagram is sent, nothing is written to the connection
\* and the connection is not ended.
C31_TooLongRejected ==
    (codec.pc = "sent" /\ codec.some /\ TooLong) =>
        /\ codec.outcome.rejected # ""
        /\ codec.outcome.sent = <<>>
        /\ ~codec.outcome.ended

C31_Witness ==
    /\ codec.pc = "sent"
    /\ codec.via = "tcp"
    /\ codec.length = 65536
    /\ codec.outcome.rejected = "TCP responses greater than 65535 bytes not supported"
    /\ codec.outcome.sent = <<>>

\* C32: the handling of queries leaves the zones of the server as zone() made
\* them: after every 'request' event and every end(), the zones are one of the
\* sets the server started with, every record with the fields and the ttl
\* property (none) that zone() gave it.
C32_ZonesKept == zone.zones \in ZoneSets

(***************************************************************************)
(* The dictionary of names of an encoder (SpecDict): Encoder.message       *)
(* writes the records of a message, regular ones by Encoder.record and OPT *)
(* pseudo-records by Encoder.ednsRecord, and toBinary() joins the header   *)
(* and the four sections.                                                  *)
(***************************************************************************)
\* how many records a section of a message of the model holds
MaxDictRecords == 2

OptWithOption == [OptRecord(4096, 0, FALSE) EXCEPT !.edns.options = <<[code |-> 10, data |-> <<1, 2>>]>>]

DictRecords ==
    { [edns |-> NoEDNS, name |-> NameBC, class |-> "IN", type |-> "A", ttl |-> 60,
       data |-> [k |-> "string", str |-> Address1234]],
      [edns |-> NoEDNS, name |-> NameC, class |-> "IN", type |-> "NS", ttl |-> 60,
       data |-> [k |-> "string", str |-> NameABC]],
      [edns |-> NoEDNS, name |-> NameBC, class |-> "IN", type |-> "SRV", ttl |-> 60,
       data |-> [k |-> "srv", priority |-> 1, weight |-> 2, port |-> 53, target |-> NameABC]],
      [edns |-> NoEDNS, name |-> NameABC, class |-> "IN", type |-> "SRV", ttl |-> 60,
       data |-> [k |-> "srv", priority |-> 1, weight |-> 2, port |-> 53,
                 target |-> NameC \o <<DOT>>]],
      OptRecord(512, 0, FALSE) @@ [ttl |-> undefined, data |-> [k |-> "none"]],
      OptWithOption @@ [ttl |-> undefined, data |-> [k |-> "none"]] }

DictSections(most) == UNION {[1..n -> DictRecords] : n \in 0..most}

\* the additional section holds one record less than the answer section may
DictMessages ==
    {[SoaQuery EXCEPT !.answer = answer, !.additional = additional] :
        answer \in DictSections(MaxDictRecords),
        additional \in DictSections(MaxDictRecords - 1)}

\* new Encoder().message( msg ): the encoder afterwards, and its toBinary()
DictMessage ==
    /\ codec.pc = "message"
    /\ codec' = [codec EXCEPT
           !.pc = "written",
           !.written = EncoderSections([NewEncoder EXCEPT !.position = 12], codec.decoded, 1),
           !.encoded = EncoderMessage(codec.decoded)]
    /\ UNCHANGED <<server, conn, net, log, zone, resp>>

InitDict ==
    /\ server = SrvInit
    /\ conn = ConnInit
    /\ net = NetInit
    /\ log = LogInit
    /\ zone = ZoneInit
    /\ \E msg \in DictMessages :
           codec = [CodecInit EXCEPT !.pc = "message", !.decoded = msg] @@ [written |-> NotYet]
    /\ resp = RespInit

NextDict == DictMessage

SpecDict == InitDict /\ [][NextDict]_vars

\* the octets at the offset decode to the name
Anchored(octets, name, offset) ==
    uncompress(octets, octets, offset) = [ok |-> TRUE, name |-> name]

\* C33: after the records of a message were written by one encoder, regular
\* and OPT in any order, the octets of the final buffer at the offset of every
\* entry of the compression dictionary decode to exactly the suffix of the
\* entry.
C33_DictionaryAnchored ==
    (codec.pc = "written" /\ codec.written.ok) =>
        \A suffix \in DOMAIN codec.written.E.domains :
            Anchored(codec.encoded.octets, suffix, codec.written.E.domains[suffix])

\* the same for the messages without an OPT record
RegularRecordsAnchored ==
    (codec.pc = "written" /\ codec.written.ok
        /\ \A s \in {"answer", "additional"} :
              \A i \in 1..Len(codec.decoded[s]) : ~codec.decoded[s][i].edns.present) =>
        \A suffix \in DOMAIN codec.written.E.domains :
            Anchored(codec.encoded.octets, suffix, codec.written.E.domains[suffix])

(***************************************************************************)
(* The length that compileName reports (SpecPointer).                      *)
(***************************************************************************)
\* the offset after the name at cursor in the octets as they stand: after the
\* zero octet that closes its labels, or after the first pointer
RECURSIVE NameEnd(_, _)
NameEnd(msg, cursor) ==
    IF cursor >= Len(msg) THEN cursor
    ELSE IF msg[cursor + 1] = 0 THEN cursor + 1
    ELSE IF msg[cursor + 1] >= 192 THEN cursor + 2
    ELSE NameEnd(msg, cursor + 1 + msg[cursor + 1])

\* C34: the length of a compiled name is the number of octets from the offset
\* up to and including the first pointer, or up to and including the zero
\* octet when the name has no pointer; octets read after a pointer was followed
\* are not counted.
C34_ConsumedLength ==
    (codec.pc = "pointer" /\ codec.name # NotYet /\ codec.name.ok) =>
        codec.name.length = NameEnd(codec.msg, codec.offset) - codec.offset

\* a label and a pointer into it, to a zero octet: the 4 octets are consumed
C34_Witness ==
    /\ codec.pc = "pointer"
    /\ codec.msg = <<1, 0, 192, 1>>
    /\ codec.offset = 0
    /\ codec.name.ok /\ codec.name.length = 4 /\ Len(codec.name.segments) = 1

\* the records of the message that are SRV records, as section and index
SrvWritten ==
    {w \in {"answer", "additional"} \X (1..MaxDictRecords) :
        /\ w[2] <= Len(codec.decoded[w[1]])
        /\ codec.decoded[w[1]][w[2]].type = "SRV"}

\* the target of the record as labels and the zero octet
TargetLiteral(record) == Literal(Split(StripTrailingDot(record.data.target), DOT)) \o <<0>>

\* the octets of a written record end with the length of 6 octets and the
\* literal, and with the literal after priority, weight and port
EndsLiteral(octets, literal, data) ==
    /\ Len(octets) >= Len(literal) + 8
    /\ SubSeq(octets, Len(octets) - Len(literal) - 7, Len(octets)) =
           buf16(6 + Len(literal)) \o buf16(data.priority) \o buf16(data.weight)
               \o buf16(data.port) \o literal

\* C35: the target of an SRV record is written as the labels of the name and
\* the zero octet, never with a pointer, also when the target or a suffix of
\* it is in the dictionary of the encoder.
C35_SrvTargetLiteral ==
    (codec.pc = "written" /\ codec.written.ok) =>
        \A w \in SrvWritten :
            EndsLiteral(codec.written.E[w[1]][w[2]],
                        TargetLiteral(codec.decoded[w[1]][w[2]]),
                        codec.decoded[w[1]][w[2]].data)

\* the SRV record follows the NS record that wrote a.b.c, the name of its target
C35_Witness ==
    /\ codec.pc = "written" /\ codec.written.ok
    /\ Len(codec.decoded.answer) = 2
    /\ codec.decoded.answer[1].type = "NS"
    /\ codec.decoded.answer[2].type = "SRV"
    /\ codec.decoded.answer[2].data.target = NameABC
    /\ NameABC \in DOMAIN codec.written.E.domains
    /\ codec.written.E.domains[NameABC] < codec.written.E.position - Len(codec.written.E.answer[2])

(***************************************************************************)
(* The OPT pseudo-RR there and back (SpecOpt): a message with one OPT      *)
(* record in its additional section is encoded and the sections of the     *)
(* octets are read by sections() of decode.js.                             *)
(***************************************************************************)
OptResults == {0, 1, 128, 255}
OptVersions == {0, 1, 255}
OptOptions ==
    { <<>>, <<[code |-> 10, data |-> <<1, 2>>]>>,
      <<[code |-> 3, data |-> <<>>], [code |-> 65001, data |-> <<255>>]>> }

OptMessages ==
    {[SoaQuery EXCEPT !.additional =
         <<[OptRecord(udpSize, extendedResult, flagDO) EXCEPT
                !.edns.version = version, !.edns.options = options]>>] :
        udpSize \in UdpSizes, extendedResult \in OptResults, version \in OptVersions,
        flagDO \in BOOLEAN, options \in OptOptions}

\* sections( octets ) of the encoded message
CodecSections ==
    /\ codec.pc = "encoded"
    /\ codec.encoded.ok
    /\ codec' = [codec EXCEPT !.pc = "sections", !.redecoded = sections(codec.encoded.octets)]
    /\ UNCHANGED <<server, conn, net, log, zone, resp>>

InitOpt ==
    /\ server = SrvInit
    /\ conn = ConnInit
    /\ net = NetInit
    /\ log = LogInit
    /\ zone = ZoneInit
    /\ \E message \in OptMessages :
          codec = [CodecInit EXCEPT !.pc = "decoded", !.decoded = [ok |-> TRUE, msg |-> message]]
    /\ resp = RespInit

NextOpt ==
    \/ CodecEncode
    \/ CodecSections

SpecOpt == InitOpt /\ [][NextOpt]_vars

\* the fields of the OPT record that was encoded
OptGiven == codec.decoded.msg.additional[1].edns

\* the record that sections() read has the fields
OptKept(read, edns) ==
    /\ read.edns
    /\ read.udpSize = edns.udpSize
    /\ read.extendedResult = edns.extendedResult
    /\ read.version = edns.version
    /\ read.flagDO = edns.flagDO
    /\ read.options = edns.options

\* C36: an OPT record with any extendedResult and version of 0..255 and
\* either flagDO is encoded, and the record read from the octets has its
\* udpSize, extendedResult, version, flagDO and options.
C36_OptRoundTrip ==
    /\ codec.pc = "encoded" => codec.encoded.ok
    /\ codec.pc = "sections" =>
          /\ codec.redecoded.ok
          /\ Len(codec.redecoded.records[4]) = 1
          /\ OptKept(codec.redecoded.records[4][1], OptGiven)

\* the same for the records with extendedResult 0, version 0 and flagDO unset
OptPlainRoundTrip ==
    (OptGiven.extendedResult = 0 /\ OptGiven.version = 0 /\ ~OptGiven.flagDO) => C36_OptRoundTrip

(***************************************************************************)
(* compileName step by step (SpecLoop): every pass of its while loop is a  *)
(* step, over the same messages and offsets as in SpecPointer.  The loop   *)
(* runs on until it returns or throws, which is the fairness of            *)
(* SpecLoopFair.                                                           *)
(***************************************************************************)
LoopMessages == UNION {[1..n -> WrittenOctets] : n \in 0..MaxOctets}

\* compileName( msg, null, offset ) up to its loop
LoopEnter ==
    /\ codec.pc = "called"
    /\ IF codec.offset < 0 \/ codec.offset > Len(codec.msg)
       THEN codec' = [codec EXCEPT !.pc = "done", !.name = Err("Bad offset")]
       ELSE codec' = [codec EXCEPT !.pc = "loop"]
    /\ UNCHANGED <<server, conn, net, log, zone, resp>>

\* the octet read at the cursor
LoopByte == U8(codec.msg, codec.cursor)
\* the pointer of the octet and the next
LoopTarget == (LoopByte % 64) * 256 + U8(codec.msg, codec.cursor + 1)

\* a pass that reads a pointer and follows it
LoopPointer ==
    /\ codec.pc = "loop"
    /\ CanRead(codec.msg, codec.cursor, 2)
    /\ LoopByte \div 64 = 3
    /\ LoopTarget < Len(codec.msg)
    /\ ~visited(codec.pointersCache, LoopTarget)
    /\ codec' = [codec EXCEPT
           !.pointersCache = @ \cup {LoopTarget},
           !.numOctets = numOctetsOf(codec.metPointer, @, codec.cursor + 2, codec.offset),
           !.metPointer = TRUE,
           !.cursor = LoopTarget]
    /\ UNCHANGED <<server, conn, net, log, zone, resp>>

\* a pass that reads a label
LoopLabel ==
    /\ codec.pc = "loop"
    /\ CanRead(codec.msg, codec.cursor, 1)
    /\ LoopByte \div 64 = 0
    /\ LoopByte > 0
    /\ codec' = [codec EXCEPT
           !.segments = Append(@, AsciiString(Slice(codec.msg, codec.cursor + 1,
                                                    codec.cursor + 1 + LoopByte))),
           !.cursor = @ + 1 + LoopByte]
    /\ UNCHANGED <<server, conn, net, log, zone, resp>>

\* the pass that reads the zero octet, and the return
LoopReturn ==
    /\ codec.pc = "loop"
    /\ CanRead(codec.msg, codec.cursor, 1)
    /\ LoopByte = 0
    /\ codec' = [codec EXCEPT
           !.pc = "done",
           !.cursor = @ + 1,
           !.name = [ok |-> TRUE, segments |-> codec.segments,
                     length |-> numOctetsOf(codec.metPointer, codec.numOctets,
                                            codec.cursor + 1, codec.offset)]]
    /\ UNCHANGED <<server, conn, net, log, zone, resp>>

\* what a pass throws, if it throws
LoopError ==
    IF ~CanRead(codec.msg, codec.cursor, 1) THEN Err("RangeError")
    ELSE IF LoopByte \div 64 \in {1, 2} THEN Err("unexpected type of label")
    ELSE IF LoopByte \div 64 = 0 THEN NotYet
    ELSE IF ~CanRead(codec.msg, codec.cursor + 1, 1) THEN Err("RangeError")
    ELSE IF LoopTarget >= Len(codec.msg) THEN Err("invalid out-of-bounds pointer")
    ELSE IF visited(codec.pointersCache, LoopTarget)
         THEN Err("circular pointer references discovered")
    ELSE NotYet

\* a pass that throws
LoopThrow ==
    /\ codec.pc = "loop"
    /\ LoopError # NotYet
    /\ codec' = [codec EXCEPT !.pc = "done", !.name = LoopError]
    /\ UNCHANGED <<server, conn, net, log, zone, resp>>

InitLoop ==
    /\ server = SrvInit
    /\ conn = ConnInit
    /\ net = NetInit
    /\ log = LogInit
    /\ zone = ZoneInit
    /\ \E msg \in LoopMessages, offset \in 0..MaxOctets :
           codec = [pc |-> "called", msg |-> msg, offset |-> offset, cursor |-> offset,
                    pointersCache |-> {}, metPointer |-> FALSE, numOctets |-> 1,
                    segments |-> <<>>, name |-> NotYet]
    /\ resp = RespInit

NextLoop ==
    \/ LoopEnter
    \/ LoopPointer
    \/ LoopLabel
    \/ LoopReturn
    \/ LoopThrow

SpecLoop == InitLoop /\ [][NextLoop]_vars

SpecLoopFair == SpecLoop /\ WF_vars(NextLoop)

\* the steps come to what compileName gives as a whole
LoopAgrees ==
    codec.pc = "done" => codec.name = compileName(codec.msg, codec.msg, codec.offset)

\* what is left to the loop: the pointer targets not yet visited, and the
\* octets from the cursor to the end of the message
LoopLeft ==
    <<Len(codec.msg) - Cardinality(codec.pointersCache),
      IF codec.cursor > Len(codec.msg) THEN 0 ELSE Len(codec.msg) + 1 - codec.cursor>>

\* every pass that does not end the call follows a pointer to a target not
\* visited before, or moves the cursor on
LoopDecreases ==
    [][(codec.pc = "loop" /\ codec'.pc = "loop") =>
          \/ LoopLeft'[1] < LoopLeft[1] /\ LoopLeft'[1] >= 0
          \/ LoopLeft'[1] = LoopLeft[1] /\ LoopLeft'[2] < LoopLeft[2] /\ LoopLeft'[2] >= 0]_vars

\* C37: compileName comes to its end on every message and offset: it returns
\* a name or throws an error after finitely many passes of its loop.
C37_Terminates == <>(codec.pc = "done")

\* a name was returned after two pointers were followed
C37_Witness ==
    /\ codec.pc = "done"
    /\ codec.name.ok
    /\ Cardinality(codec.pointersCache) = 2

(***************************************************************************)
(* The OPT pseudo-RR of a response (SpecEdns): requests with and without   *)
(* OPT records come to the server with the zone "b"; the listener may set  *)
(* a response code, push an A record, push OPT records, and ends the       *)
(* response with end().                                                    *)
(***************************************************************************)
\* how many OPT records a listener of the model pushes
MaxOpts == 2

\* the response codes a listener of the model sets: the first that asks for
\* an extended result, and the first whose bits 4 to 11 are 0 again
HandlerCodes == {16, 4096}

\* res[sectionName].push( new DNSRecord( { edns: ..., name: "", class: "IN", type: "OPT" } ) )
HandlerPushOpt(sectionName) ==
    /\ resp.state = "handling"
    /\ Len(findEDNSRecords(resp.response)) < MaxOpts
    /\ resp' = [resp EXCEPT !.response[sectionName] = Append(@, OptRecord(512, 0, FALSE))]
    /\ UNCHANGED <<server, conn, net, log, zone, codec>>

\* res.end()
HandlerEndPlain ==
    /\ resp.state = "handling"
    /\ LET Ended(out) ==
               /\ resp' = [resp EXCEPT !.state = "ended", !.value = NoValue, !.outcome = out]
               /\ zone' = [zone EXCEPT !.zones = out.zones]
       IN  Ended(DNSResponseEnd(resp.response, resp.via, zone.zones, DefaultOptions))
    /\ UNCHANGED <<server, conn, net, log, codec>>

InitEdns ==
    /\ server = SrvInit
    /\ conn = ConnInit
    /\ \E query \in Requests :
           \/ net = [NetInit EXCEPT !.datagram = query]
           \/ net = [NetInit EXCEPT !.written = <<query>>, !.tcp = Frame(query)]
    /\ log = LogInit
    /\ zone = [ZoneInit EXCEPT !.zones = zoneSet(<<>>, ZoneB)]
    /\ codec = CodecInit
    /\ resp = RespInit

NextEdns ==
    \/ OnUdp
    \/ OnTcpData(Len(net.tcp))
    \/ HandlerPush("answer", TTLGiven)
    \/ \E sectionName \in {"answer", "additional"} : HandlerPushOpt(sectionName)
    \/ \E code \in HandlerCodes : HandlerSet("responseCode", code)
    \/ HandlerEndPlain

SpecEdns == InitEdns /\ [][NextEdns]_vars

\* exactly one OPT record, in the additional section
OneInAdditional(found) == Len(found) = 1 /\ found[1].section = "additional"
\* more than one OPT record, or one outside the additional section
Misplaced(found) == Len(found) > 1 \/ (Len(found) = 1 /\ found[1].section # "additional")

\* the response has to carry an OPT record
OptRequired ==
    \/ OneInAdditional(findEDNSRecords(DNSRequest(QueryOf).msg))
    \/ resp.response.responseCode > 15

\* end() threw or its promise was rejected
EndFailed == resp.outcome.thrown # "" \/ resp.outcome.rejected # ""

\* C38: when the request had exactly one OPT record, in its additional
\* section, or the response code is above 15, the response that end()
\* transmits has exactly one OPT record, in its additional section, and end()
\* fails and transmits nothing when the response holds more than one OPT
\* record or one outside the additional section.
C38_OneOptInAdditional ==
    (resp.state = "ended" /\ OptRequired) =>
        /\ Transmitted => OneInAdditional(findEDNSRecords(resp.outcome.response))
        /\ Misplaced(findEDNSRecords(resp.response)) => (~Transmitted /\ EndFailed)

\* the same for the response codes of 12 bits
OptCodeInRange ==
    (resp.state = "ended" /\ resp.response.responseCode < 4096) => C38_OneOptInAdditional

\* no response with a response code of 16..4095 is transmitted
OptNeverTransmitted ==
    ~(resp.state = "ended" /\ OptRequired /\ Transmitted /\ resp.response.responseCode < 4096)
\* no request with one OPT record in its additional section comes to a listener
OptNeverHandled ==
    ~(resp.state # "none" /\ OneInAdditional(findEDNSRecords(DNSRequest(QueryOf).msg)))

(***************************************************************************)
(* The records of a listener in end() (SpecTtl): the listener pushes       *)
(* records with and without a TTL and a class and ends the response.       *)
(***************************************************************************)
\* the records a listener of the model pushes: without a TTL, with the TTL 0,
\* with a TTL below the minimum of the zones; without a class, with the class
\* IN, with the class NONE
HandlerRecords(response) ==
    {[HandlerRecord(response, ttl) EXCEPT !.class = class] :
        ttl \in {undefined, 0, TTLGiven}, class \in {null, "IN", "NONE"}}

\* res[sectionName].push( record )
HandlerPushRecord(sectionName) ==
    /\ resp.state = "handling"
    /\ resp.pushed < MaxPushed
    /\ \E record \in HandlerRecords(resp.response) :
           resp' = [resp EXCEPT !.response[sectionName] = Append(@, record), !.pushed = @ + 1]
    /\ UNCHANGED <<server, conn, net, log, zone, codec>>

InitTtl ==
    /\ server = SrvInit
    /\ conn = ConnInit
    /\ \E query \in Queries :
           \/ net = [NetInit EXCEPT !.datagram = query]
           \/ net = [NetInit EXCEPT !.written = <<query>>, !.tcp = Frame(query)]
    /\ log = LogInit
    /\ \E zones \in ZoneSets : zone = [ZoneInit EXCEPT !.zones = zones]
    /\ codec = CodecInit
    /\ resp = RespInit

NextTtl ==
    \/ OnUdp
    \/ OnTcpData(Len(net.tcp))
    \/ \E sectionName \in {"answer", "additional"} : HandlerPushRecord(sectionName)
    \/ HandlerEndPlain

SpecTtl == InitTtl /\ [][NextTtl]_vars

\* a TTL or a class that the record lacks: ( !record.ttl ) holds for no TTL and
\* for the TTL 0
LacksTTL(record) == record.ttl \in {undefined, 0}
LacksClass(record) == record.class = null

\* the records that the listener pushed, as section and index
Pushed ==
    {w \in {"answer", "additional"} \X (1..MaxPushed) : w[2] <= Len(resp.response[w[1]])}

\* end() left the record as it was but for a TTL or a class that it lacked
KeptByEnd(before, after) ==
    /\ ~LacksTTL(before) => after.ttl = before.ttl
    /\ ~LacksClass(before) => after.class = before.class
    /\ [after EXCEPT !.ttl = 0, !.class = null] = [before EXCEPT !.ttl = 0, !.class = null]

\* C39: end() leaves the TTL of every record that the listener gave a TTL
\* other than 0, one below the minimum of the zone included, and every class
\* that the listener set; it changes nothing of a record but a TTL or a class
\* that the record lacks.
C39_RecordsKept ==
    resp.state = "ended" =>
        \A w \in Pushed :
            /\ w[2] <= Len(resp.outcome.response[w[1]])
            /\ KeptByEnd(resp.response[w[1]][w[2]], resp.outcome.response[w[1]][w[2]])

\* an answer with the TTL below the 600 seconds of the zone and the class
\* NONE was transmitted with both
C39_Witness ==
    /\ Transmitted
    /\ zone.zones = zoneSet(<<>>, ZoneExampleTimed)
    /\ Len(resp.response.answer) = 1
    /\ resp.response.answer[1].ttl = TTLGiven /\ resp.response.answer[1].class = "NONE"
    /\ TTLGiven < ZoneExampleTimed.data.ttl
    /\ resp.outcome.response.answer[1].ttl = TTLGiven
    /\ resp.outcome.response.answer[1].class = "NONE"
    /\ Len(Payload.answer) = 1
    /\ Payload.answer[1].ttl = TTLGiven /\ Payload.answer[1].class = "NONE"

(***************************************************************************)
(* Traffic around close() (SpecShut): the server listens; datagrams arrive *)
(* at any time, a client has written one or two queries to a connection    *)
(* that was established before, and the data comes in one or two chunks.   *)
(* net.open tells that the connection has not been closed.  The TCP server *)
(* of Node.js reports 'close', and runs the callback of tcp.close( cb ),   *)
(* when close was asked for and every connection has been closed.          *)
(***************************************************************************)
ShutQueries == {Query(1, <<QuestionFooA>>), Query(1, <<QuestionExampleSOA>>)}

ShutWritten == {<<>>} \cup {<<q>> : q \in ShutQueries} \cup {<<p, q>> : p, q \in ShutQueries}

\* a 'data' event of a connection that has not been closed
ShutOnTcpData(n) == net.open /\ OnTcpData(n)

\* the 'close' event of the connection: what the client wrote and the server
\* has not read is read no more
ConnectionClosed ==
    /\ net.open
    /\ net' = [net EXCEPT !.open = FALSE]
    /\ UNCHANGED <<server, conn, log, zone, codec, resp>>

\* the 'close' event of the TCP server, once its connection has been closed
ShutTcpClosed == ~net.open /\ TcpClosed

InitShut ==
    /\ server = Listening
    /\ conn = ConnInit
    /\ \E written \in ShutWritten, datagram \in {<<>>} \cup ShutQueries :
           net = [NetInit EXCEPT !.written = written, !.tcp = Frames(written),
                                 !.datagram = datagram] @@ [open |-> written # <<>>]
    /\ log = LogInit
    /\ zone = [ZoneInit EXCEPT !.zones = zoneSet(<<>>, ZoneExampleTimed)]
    /\ codec = CodecInit
    /\ resp = RespInit

NextShut ==
    \/ ClosableOnUdp
    \/ \E datagram \in ShutQueries : UdpArrives(datagram)
    \/ \E n \in {Len(net.tcp)} \cup {Len(Frame(net.written[i])) : i \in 1..Len(net.written)} :
           ShutOnTcpData(n)
    \/ ConnectionClosed
    \/ ClosableHandlerEnd
    \/ Close
    \/ UdpClosed
    \/ ShutTcpClosed

SpecShut == InitShut /\ [][NextShut]_vars

\* the 'request' events so far
RequestEvents(l) == Cardinality({i \in 1..Len(l.handled) : l.handled[i].emitted})

\* C40: once the server has emitted 'close', it emits no 'request' event any
\* more, whatever datagrams and data of connections were on their way when
\* close() was called.
C40_NoRequestAfterClose ==
    [][server.emitted.close > 0 => RequestEvents(log') = RequestEvents(log)]_vars

\* 'close' was emitted after a request, with a datagram and data of the
\* connection that were never delivered
C40_Witness ==
    /\ server.emitted.close > 0
    /\ RequestEvents(log) > 0
    /\ net.datagram # <<>>
    /\ net.tcp # <<>>

====
